---- MODULE Spec2Model ----
(***************************************************************************)
(* Model of the Grawlr Harvester (harvester.go, store.go): the fetch       *)
(* pipeline of Harvester.Visit / Harvester.fetch with its robots cache,    *)
(* URL policy, depth gate, visited store and hook registries.              *)
(*                                                                         *)
(* Strings are sequences of symbols.  An absolute URL is the symbol of its *)
(* scheme and host followed by the symbols of its path.                    *)
(***************************************************************************)
EXTENDS Integers, Sequences, FiniteSets, TLC

\* ------------------------------------------------------------------ bounds
MaxSeqCalls == 2
MaxDepthLimit == 2
MaxHooks == 2
MaxFaults == 1
MaxListLen == 2
MaxPipeHooks == 3
MaxStoreCalls == 3
NThreads == 2
\* deep enough for a chain of Request.Visit calls to reach the depth gate
MaxStack == MaxDepthLimit + 1

\* ---------------------------------------------------------------- universe
Hosts == {"h1", "h2"}
Threads == 1..NThreads
\* a robots map lookup that finds no entry (the zero value and ok = false)
NoEntry == [ok |-> FALSE, rules |-> {}, src |-> 0]

\* the URLs a caller passes to Visit; <<"%">> does not parse
BadURL == <<"%">>
Seeds == {<<"h1">>, <<"h1", "a">>, <<"h1", "b">>, <<"h2">>, BadURL}
PageURLs == Seeds \ {BadURL}

\* robots.txt served by each host: the set of disallowed path prefixes
RobotsTxt == [h \in Hosts |-> IF h = "h1" THEN {<<"b">>} ELSE {}]

\* the allow / deny lists a Harvester is constructed with
ListConfigs ==
  { <<(<<>>), (<<>>)>>,
    << << <<"h1", "a">>, <<"h2">> >>, << <<"h1", "a">> >> >> }

\* what a registered middleware does with the request it is handed
ReqHookKinds == {"hvisit"}
ResHookKinds == {"rvisit", "hvisit"}
\* middlewares that do not visit: a request middleware sets the User-Agent
\* header, a response middleware reads Response.Body to the end or only
\* looks at the status code
ReqPipeKinds == {"setA", "setB"}
ResPipeKinds == {"readAll", "status"}
\* the selectors of the registered HtmlMiddlewares; an element is written as
\* its tag and a page as the sequence of its elements in document order
Selectors == {"a", "p"}
Body(u) == IF u = <<"h1">> THEN <<"a", "p", "a">>
           ELSE IF u = <<"h1", "a">> THEN <<"p">>
           ELSE <<>>
\* no User-Agent header has been set on the Request
NoHeader == "none"

\* the strings and lists the policy check is applied to
Strs == {<<>>, <<"h1">>, <<"a">>, <<"h1", "a">>, <<"h1", "h1">>}
PolicyURLs == Strs \cup {<<"h1", "a", "a">>}
RECURSIVE ListsUpTo(_)
ListsUpTo(n) == IF n = 0 THEN {<<>>}
                ELSE ListsUpTo(n - 1) \cup
                     {Append(l, s) : l \in {x \in ListsUpTo(n - 1) : Len(x) = n - 1}, s \in Strs}
Lists == ListsUpTo(MaxListLen)

VARIABLES
  AllowedURLs, DisallowedURLs, DepthLimit, AllowRevisit, Context, ignoreRobots,
  requestMiddlewares, responseMiddlewares, htmlMiddlewares,
  store, robotsMap,
  stack, lastRet, tree,
  pageReqs, robotsReqs, robotsOK, okTop, topCalls, faults, net,
  pu, pres,
  allocs, kept,
  clone,
  storeCalls,
  mu

\* Context is "live" until its cancel function is called, then "canceled"
config == <<AllowedURLs, DisallowedURLs, DepthLimit, AllowRevisit, Context,
            ignoreRobots>>
registries == <<requestMiddlewares, responseMiddlewares, htmlMiddlewares>>
policyVars == <<pu, pres>>
\* allocs counts the error values fmt.Errorf has built; kept lists the
\* errors the caller of Visit has kept
errVars == <<allocs, kept>>
\* what the steps of fetch leave alone
sideVars == <<policyVars, storeCalls, clone>>
\* clone is empty until Clone is called, then it holds the fields of the
\* Harvester Clone has made; store and robotsMap are a pointer and a map,
\* which the two Harvesters share;
\* storeCalls lists the calls a user of the InMemoryStore has made on it;
\* mu[r] is the thread that holds the mutex of Harvester r, 0 when it is free
\* the condition of the network and the servers while one call of the user
\* runs: "up", "down" (every HTTP call fails), "badrobots" (robots.txt does
\* not parse), "badbody" (reading a response body fails)
NetModes == {"up", "down", "badrobots", "badbody"}
vars == <<AllowedURLs, DisallowedURLs, DepthLimit, AllowRevisit, Context,
          ignoreRobots,
          requestMiddlewares, responseMiddlewares, htmlMiddlewares, store,
          robotsMap, stack, lastRet, tree, pageReqs, robotsReqs, robotsOK, okTop,
          topCalls, faults, net, pu, pres, allocs, kept, clone,
          storeCalls, mu>>

\* ------------------------------------------------------------ pure helpers
\* strings.HasPrefix
HasPrefix(s, prefix) ==
  Len(s) >= Len(prefix) /\ SubSeq(s, 1, Len(prefix)) = prefix

\* the loop `for _, x := range list { if strings.HasPrefix(u, x) {...} }`
RECURSIVE anyHasPrefix(_, _)
anyHasPrefix(u, list) ==
  IF list = <<>> THEN FALSE
  ELSE IF HasPrefix(u, Head(list)) THEN TRUE
  ELSE anyHasPrefix(u, Tail(list))

\* isURLAllowed without the loop over DisallowedURLs
isURLAllowed_noDeny(u) ==
  IF Len(AllowedURLs) = 0 THEN TRUE
  ELSE anyHasPrefix(u, AllowedURLs)

\* isURLAllowed without the loop over AllowedURLs
isURLAllowed_noAllow(u) ==
  IF anyHasPrefix(u, DisallowedURLs) THEN FALSE
  ELSE TRUE

\* isURLAllowed with the allow list consulted before the deny list
isURLAllowed_allowFirst(u) ==
  IF Len(AllowedURLs) # 0 /\ anyHasPrefix(u, AllowedURLs) THEN TRUE
  ELSE IF anyHasPrefix(u, DisallowedURLs) THEN FALSE
  ELSE Len(AllowedURLs) = 0

isURLAllowed(u) ==
  IF anyHasPrefix(u, DisallowedURLs) THEN FALSE
  ELSE IF Len(AllowedURLs) = 0 THEN TRUE
  ELSE anyHasPrefix(u, AllowedURLs)

\* checkDepth that lets every depth pass
checkDepth_never(depth) == "nil"

\* checkDepth comparing with > instead of >=
checkDepth_gt(depth) ==
  IF DepthLimit # 0 /\ depth > DepthLimit THEN "ErrDepthLimitExceeded" ELSE "nil"

\* checkDepth without the DepthLimit != 0 test
checkDepth_noZero(depth) ==
  IF depth >= DepthLimit THEN "ErrDepthLimitExceeded" ELSE "nil"

checkDepth(depth) ==
  IF DepthLimit # 0 /\ depth >= DepthLimit THEN "ErrDepthLimitExceeded" ELSE "nil"

\* url.Parse and the fields of the parsed URL
parseOK(u) == \A i \in 1..Len(u) : u[i] # "%"
Host(u) == Head(u)
Path(u) == Tail(u)
\* checkRobots: robotURL := parsedURL.Scheme + "://" + parsedURL.Host + "/robots.txt"
robotURL(u) == <<Host(u), "robots.txt">>
\* robot.TestAgent(path, "Grawlr")
TestAgent(robot, path) == \A d \in robot.rules : ~HasPrefix(path, d)
\* robotstxt.FromResponse on the robots.txt of host h; src tells which of
\* the responses of the host the rule set was made from
FromResponse(h) ==
  [ok |-> TRUE, rules |-> RobotsTxt[h], src |-> robotsOK[h] + 1]
\* parsedURL.String()
urlString(u) == <<Host(u)>> \o Path(u)

\* InMemoryStore
Visited(u) == u \in store
\* Visit that replaces the map by one that holds u alone
storeVisit_only(u) == {u}
storeVisit(u) == store \cup {u}
\* the map after Visited(u), which reads s.visited[url]
afterVisited(u) == store

\* ------------------------------------------------------------------ frames
\* no error value of this package (nil, or an error passed through)
NoErr == [msg |-> <<>>, addr |-> 0]

\* marked tells that this call has called store.Visit, aborted that the
\* context was canceled while its HTTP call was in flight;
\* hdr is the User-Agent header of the Request and sent the one the HTTP
\* request went out with; b is the buffered body, pos the offset of the
\* reader over it that Response.Body is, doc the parsed document; log lists
\* the middleware calls and the HTTP call of this fetch in the order they ran
\* recv is the Harvester the fetch runs on, ran the middlewares it has
\* called, inner the values the calls of Visit made by its middlewares have
\* returned to them; raced tells that it has read a registry while another
\* thread was between the Lock and the Unlock of an append to that registry,
\* htmlErr that goquery.NewDocumentFromReader has returned an error to it,
\* mapRace that it has read or written the robots map while another thread
\* was reading or writing it
NewFrame(u, depth, via, pdepth) ==
  [url |-> u, depth |-> depth, via |-> via, pdepth |-> pdepth,
   pc |-> "parse", i |-> 1, j |-> 1, mws |-> <<>>, robot |-> NoEntry,
   robotsIO |-> FALSE, pageIO |-> FALSE, passed |-> 0, err |-> "nil",
   hdr |-> NoHeader, sent |-> NoHeader, b |-> <<>>, pos |-> 0, doc |-> <<>>,
   marked |-> FALSE, aborted |-> FALSE, log |-> <<>>, errv |-> NoErr,
   recv |-> "h", ran |-> {}, inner |-> {}, raced |-> FALSE,
   htmlErr |-> FALSE, mapRace |-> FALSE]

\* one entry of the log: the i-th middleware of a registry was called (ev is
\* "req", "res" or "el") or the HTTP call was made ("do"); e is the position
\* in the document of the element handed to an element callback, data what
\* the middleware read or was handed, hdr the header it could see
Ev(ev, i, e, data, hdr) == [ev |-> ev, i |-> i, e |-> e, data |-> data, hdr |-> hdr]

Top(t) == stack[t][Len(stack[t])]
At(t, pc) == stack[t] # <<>> /\ Top(t).pc = pc
SetTop(t, f) == [stack EXCEPT ![t] = [@ EXCEPT ![Len(@)] = f]]
Push(t, f, g) == [stack EXCEPT ![t] = Append([@ EXCEPT ![Len(@)] = f], g)]
Fail(f, e) == [f EXCEPT !.pc = "ret", !.err = e]

\* the messages of the errors the Err... functions build with fmt.Errorf
ErrForbiddenURL(u) == <<"URL ", u, " is forbidden">>
\* ErrRobotsDisallowed with the format string of ErrForbiddenURL
ErrRobotsDisallowed_forbidden(u) == <<"URL ", u, " is forbidden">>
ErrRobotsDisallowed(u) == <<"URL ", u, " is disallowed by robots.txt">>
ErrVisitedURL(u) == <<"URL ", u, " has already been visited">>
ErrDepthLimitExceeded(depth, limit) ==
  <<"depth limit exceeded: ", depth, " > ", limit>>
\* the rejections: the return statements of fetch that build their error
Rejections == {"ErrForbiddenURL", "ErrRobotsDisallowed", "ErrVisitedURL",
               "ErrDepthLimitExceeded"}
\* the return statement e of the fetch of frame f: the error value it builds
\* is a new one each time
Reject(f, e) ==
  [Fail(f, e) EXCEPT !.errv =
     [msg |-> CASE e = "ErrForbiddenURL" -> ErrForbiddenURL(urlString(f.url))
                [] e = "ErrRobotsDisallowed" -> ErrRobotsDisallowed(urlString(f.url))
                [] e = "ErrVisitedURL" -> ErrVisitedURL(urlString(f.url))
                [] e = "ErrDepthLimitExceeded" ->
                     ErrDepthLimitExceeded(f.depth, DepthLimit),
      addr |-> allocs + 1]]

\* the fields of the Harvester the fetch of frame f runs on
Recv(f) ==
  IF f.recv = "clone" THEN clone[1]
  ELSE [AllowedURLs |-> AllowedURLs, DisallowedURLs |-> DisallowedURLs,
        DepthLimit |-> DepthLimit, AllowRevisit |-> AllowRevisit,
        Context |-> Context, ignoreRobots |-> ignoreRobots,
        requestMiddlewares |-> requestMiddlewares,
        responseMiddlewares |-> responseMiddlewares,
        htmlMiddlewares |-> htmlMiddlewares]

\* isURLAllowed, checkFilters and checkDepth with the Harvester c, a clone,
\* as their receiver
isURLAllowedOn(c, u) ==
  IF anyHasPrefix(u, c.DisallowedURLs) THEN FALSE
  ELSE IF Len(c.AllowedURLs) = 0 THEN TRUE
  ELSE anyHasPrefix(u, c.AllowedURLs)

checkFiltersOn(c, u) ==
  IF ~c.AllowRevisit /\ Visited(u) THEN "ErrVisitedURL"
  ELSE IF ~isURLAllowedOn(c, u) THEN "ErrForbiddenURL"
  ELSE "nil"

checkDepthOn(c, depth) ==
  IF c.DepthLimit # 0 /\ depth >= c.DepthLimit THEN "ErrDepthLimitExceeded"
  ELSE "nil"

\* a Harvester constructed with one of the allow / deny lists of lists
NewHarvester(lists) ==
  /\ \E lc \in lists : AllowedURLs = lc[1] /\ DisallowedURLs = lc[2]
  /\ DepthLimit \in 0..MaxDepthLimit
  /\ AllowRevisit \in BOOLEAN
  /\ Context = "live"
  /\ ignoreRobots \in BOOLEAN
  /\ requestMiddlewares = <<>>
  /\ responseMiddlewares = <<>>
  /\ htmlMiddlewares = <<>>
  /\ store = {}
  /\ robotsMap = [h \in Hosts |-> NoEntry]
  /\ stack = [t \in Threads |-> <<>>]
  /\ lastRet = [t \in Threads |-> <<>>]
  /\ tree = [t \in Threads |-> [page |-> 0, resp |-> 0]]
  /\ pageReqs = [u \in PageURLs |-> 0]
  /\ robotsReqs = [h \in Hosts |-> 0]
  /\ robotsOK = [h \in Hosts |-> 0]
  /\ okTop = {}
  /\ topCalls = 0
  /\ faults = 0
  /\ net = "up"
  /\ pu = <<>>
  /\ pres = <<>>
  /\ allocs = 0
  /\ kept = <<>>
  /\ clone = <<>>
  /\ storeCalls = <<>>
  /\ mu = [r \in {"h", "clone"} |-> 0]

Init == NewHarvester(ListConfigs)

\* ----------------------------------------------------------------- actions
\* RequestDo / ResponseDo: append to a hook registry
RequestDo(mw) ==
  /\ requestMiddlewares' = Append(requestMiddlewares, mw)
  /\ UNCHANGED <<config, responseMiddlewares, htmlMiddlewares, store, robotsMap,
                 stack, lastRet, tree, pageReqs, robotsReqs, robotsOK, okTop,
                 topCalls, faults, net, sideVars, mu, errVars>>

ResponseDo(mw) ==
  /\ responseMiddlewares' = Append(responseMiddlewares, mw)
  /\ UNCHANGED <<config, requestMiddlewares, htmlMiddlewares, store, robotsMap,
                 stack, lastRet, tree, pageReqs, robotsReqs, robotsOK, okTop,
                 topCalls, faults, net, sideVars, mu, errVars>>

\* HtmlDo: append a (selector, callback) pair to the registry
HtmlDo(gqSelector) ==
  /\ htmlMiddlewares' = Append(htmlMiddlewares, gqSelector)
  /\ UNCHANGED <<config, requestMiddlewares, responseMiddlewares, store,
                 robotsMap, stack, lastRet, tree, pageReqs, robotsReqs,
                 robotsOK, okTop, topCalls, faults, net, sideVars, mu, errVars>>

\* Harvester.Visit called by the user of the Harvester: fetch(u, GET, 0)
Visit(t, u, n) ==
  /\ stack[t] = <<>>
  /\ topCalls' = topCalls + 1
  /\ net' = n
  /\ IF n = "up" THEN faults' = faults
     ELSE faults < MaxFaults /\ faults' = faults + 1
  /\ stack' = [stack EXCEPT ![t] = <<NewFrame(u, 0, "top", 0)>>]
  /\ tree' = [tree EXCEPT ![t] = [page |-> 0, resp |-> 0]]
  /\ UNCHANGED <<config, registries, store, robotsMap, lastRet, pageReqs,
                 robotsReqs, robotsOK, okTop, sideVars, mu, errVars>>

\* the frame-local steps leave everything but the stack alone
OnlyStack == UNCHANGED <<config, registries, store, robotsMap, lastRet, tree,
                         pageReqs, robotsReqs, robotsOK, okTop, topCalls,
                         faults, net, sideVars, mu, errVars>>
\* the steps that may return an error built with fmt.Errorf
StackAndAllocs == UNCHANGED <<config, registries, store, robotsMap, lastRet,
                              tree, pageReqs, robotsReqs, robotsOK, okTop,
                              topCalls, faults, net, sideVars, mu, kept>>

\* fetch that calls store.Visit on the URL as soon as it has parsed it
UrlParse_mark(t) ==
  /\ At(t, "parse")
  /\ LET f == Top(t) IN
       /\ stack' = SetTop(t, IF parseOK(f.url)
                             THEN [f EXCEPT !.pc = "robotsLookup", !.marked = TRUE]
                             ELSE Fail(f, "ErrParse"))
       /\ store' = IF parseOK(f.url) THEN storeVisit(urlString(f.url)) ELSE store
  /\ UNCHANGED <<config, registries, robotsMap, lastRet, tree, pageReqs,
                 robotsReqs, robotsOK, okTop, topCalls, faults, net, sideVars,
                 mu, errVars>>

\* fetch: url.Parse(u)
UrlParse(t) ==
  /\ At(t, "parse")
  /\ LET f == Top(t) IN
       stack' = SetTop(t, IF parseOK(f.url) THEN [f EXCEPT !.pc = "robotsLookup"]
                          ELSE Fail(f, "ErrParse"))
  /\ OnlyStack

\* the steps that lock or unlock a mutex
StackAndMu == UNCHANGED <<config, registries, store, robotsMap, lastRet, tree,
                          pageReqs, robotsReqs, robotsOK, okTop, topCalls,
                          faults, net, sideVars, errVars>>

\* h.mu.Lock() and h.mu.Unlock() by thread t, h being the Harvester r
Locked(r, t) == [mu EXCEPT ![r] = t]
Unlocked(r) == [mu EXCEPT ![r] = 0]

\* checkRobots without the ignoreRobots return
RobotsLookup_noIgnore(t) ==
  /\ At(t, "robotsLookup")
  /\ LET f == Top(t) IN
       /\ mu[f.recv] = 0
       /\ mu' = Locked(f.recv, t)
       /\ stack' = SetTop(t, [f EXCEPT !.pc = "robotsRead"])
  /\ StackAndMu

\* fetch calling checkFilters ahead of checkRobots
RobotsLookup_filtersFirst(t) ==
  /\ At(t, "robotsLookup")
  /\ LET f == Top(t)
         e == IF ~AllowRevisit /\ Visited(urlString(f.url)) THEN "ErrVisitedURL"
              ELSE IF ~isURLAllowed(urlString(f.url)) THEN "ErrForbiddenURL"
              ELSE "nil" IN
       /\ e = "nil" /\ ~Recv(f).ignoreRobots => mu[f.recv] = 0
       /\ mu' = IF e = "nil" /\ ~Recv(f).ignoreRobots THEN Locked(f.recv, t)
                ELSE mu
       /\ stack' = SetTop(t,
            IF e # "nil" THEN Reject(f, e)
            ELSE IF Recv(f).ignoreRobots
                 THEN [f EXCEPT !.pc = "filters", !.passed = 1]
            ELSE [f EXCEPT !.pc = "robotsRead"])
       /\ allocs' = IF e # "nil" THEN allocs + 1 ELSE allocs
  /\ UNCHANGED <<config, registries, store, robotsMap, lastRet, tree, pageReqs,
                 robotsReqs, robotsOK, okTop, topCalls, faults, net, sideVars,
                 kept>>

\* checkRobots: the ignoreRobots return, or h.mu.Lock() ahead of the lookup
RobotsLookup(t) ==
  /\ At(t, "robotsLookup")
  /\ LET f == Top(t) IN
       IF Recv(f).ignoreRobots
       THEN /\ stack' = SetTop(t, [f EXCEPT !.pc = "filters", !.passed = 1])
            /\ mu' = mu
       ELSE /\ mu[f.recv] = 0
            /\ mu' = Locked(f.recv, t)
            /\ stack' = SetTop(t, [f EXCEPT !.pc = "robotsRead"])
  /\ StackAndMu

\* checkRobots that unlocks the mutex only when the host has an entry, and
\* keeps it while robots.txt is fetched
RobotsRead_hold(t) ==
  /\ At(t, "robotsRead")
  /\ LET f == Top(t)
         robot == robotsMap[Host(f.url)] IN
       /\ stack' = SetTop(t,
            IF ~robot.ok THEN [f EXCEPT !.pc = "robotsFetch"]
            ELSE [f EXCEPT !.pc = "robotsTest", !.robot = robot])
       /\ mu' = IF robot.ok THEN Unlocked(f.recv) ELSE mu
  /\ StackAndMu

\* the threads other than t that are between the Lock and the Unlock around
\* their write into the robots map, which a Harvester and its clone share
MapWriters(t) == {w \in Threads \ {t} : At(w, "robotsWrite")}
\* and those between the Lock and the Unlock around their lookup or write
MapUsers(t) ==
  {w \in Threads \ {t} : At(w, "robotsRead") \/ At(w, "robotsWrite")}

\* what the lookup of host h by thread t may give. With no write under way
\* it is the entry of h. A lookup that overlaps a write is a data race on
\* the map: it gives the entry as it was, or the one being written
MapReads(t, h) ==
  {robotsMap[h]}
  \cup {Top(w).robot : w \in {x \in MapWriters(t) : Host(Top(x).url) = h}}

\* the Go runtime ends the program with "fatal error: concurrent map read and
\* map write" (or "concurrent map writes") when it detects the race: the
\* goroutine never leaves the step
Fatal(f) == [f EXCEPT !.pc = "fatal", !.mapRace = TRUE]

\* checkRobots: robot, ok := h.robotsMap[parsedURL.Host] and h.mu.Unlock()
RobotsRead(t) ==
  /\ At(t, "robotsRead")
  /\ LET f == Top(t)
         race == MapWriters(t) # {} IN
       \/ \E robot \in MapReads(t, Host(f.url)) :
            /\ stack' = SetTop(t,
                 IF ~robot.ok
                 THEN [f EXCEPT !.pc = "robotsFetch", !.mapRace = @ \/ race]
                 ELSE [f EXCEPT !.pc = "robotsTest", !.robot = robot,
                                !.mapRace = @ \/ race])
            /\ mu' = Unlocked(f.recv)
       \/ /\ race
          /\ stack' = SetTop(t, Fatal(f))
          /\ mu' = mu
  /\ StackAndMu

\* checkRobots that asks isURLAllowed about the robots.txt URL before it
\* requests it
RobotsFetchOK_gated(t) ==
  /\ At(t, "robotsFetch")
  /\ net \notin {"down", "badrobots"}
  /\ LET f == Top(t)
         h == Host(f.url)
         ok == isURLAllowedOn(Recv(f), urlString(robotURL(f.url))) IN
       /\ robotsReqs' = [robotsReqs EXCEPT ![h] = IF ok THEN @ + 1 ELSE @]
       /\ robotsOK' = [robotsOK EXCEPT ![h] = IF ok THEN @ + 1 ELSE @]
       /\ stack' = SetTop(t,
            IF ok THEN [f EXCEPT !.pc = "robotsStore", !.robotsIO = TRUE,
                                 !.robot = FromResponse(h)]
            ELSE Fail(f, "ErrForbiddenURL"))
  /\ UNCHANGED <<config, registries, store, robotsMap, lastRet, tree, pageReqs,
                 okTop, topCalls, faults, net, sideVars, mu, errVars>>

\* checkRobots: Client.Get(robotURL) and robotstxt.FromResponse succeed
RobotsFetchOK(t) ==
  /\ At(t, "robotsFetch")
  /\ net \notin {"down", "badrobots"}
  /\ LET f == Top(t)
         h == Host(f.url) IN
       /\ robotsReqs' = [robotsReqs EXCEPT ![h] = @ + 1]
       /\ robotsOK' = [robotsOK EXCEPT ![h] = @ + 1]
       /\ stack' = SetTop(t, [f EXCEPT !.pc = "robotsStore", !.robotsIO = TRUE,
                                       !.robot = FromResponse(h)])
  /\ UNCHANGED <<config, registries, store, robotsMap, lastRet, tree, pageReqs,
                 okTop, topCalls, faults, net, sideVars, mu, errVars>>

\* checkRobots that caches an empty rule set for the host when robots.txt
\* cannot be had, and returns the error
RobotsFetchFail_cache(t) ==
  /\ At(t, "robotsFetch")
  /\ net \in {"down", "badrobots"}
  /\ LET f == Top(t)
         h == Host(f.url)
         e == IF net = "down" THEN "ErrTransport" ELSE "ErrRobotsParse" IN
       /\ robotsReqs' = [robotsReqs EXCEPT ![h] = @ + 1]
       /\ robotsMap' = [robotsMap EXCEPT ![h] = [ok |-> TRUE, rules |-> {}, src |-> 0]]
       /\ stack' = SetTop(t, [Fail(f, e) EXCEPT !.robotsIO = TRUE])
  /\ UNCHANGED <<config, registries, store, lastRet, tree, pageReqs,
                 robotsOK, okTop, topCalls, faults, net, sideVars, mu, errVars>>

\* checkRobots that lets the URL pass when robots.txt cannot be had
RobotsFetchFail_allow(t) ==
  /\ At(t, "robotsFetch")
  /\ net \in {"down", "badrobots"}
  /\ LET f == Top(t)
         h == Host(f.url) IN
       /\ robotsReqs' = [robotsReqs EXCEPT ![h] = @ + 1]
       /\ stack' = SetTop(t, [f EXCEPT !.pc = "filters", !.passed = 1,
                                       !.robotsIO = TRUE])
  /\ UNCHANGED <<config, registries, store, robotsMap, lastRet, tree, pageReqs,
                 robotsOK, okTop, topCalls, faults, net, sideVars, mu,
                 errVars>>

\* checkRobots: Client.Get fails, or the robots.txt it returns does not parse
RobotsFetchFail(t) ==
  /\ At(t, "robotsFetch")
  /\ net \in {"down", "badrobots"}
  /\ LET f == Top(t)
         h == Host(f.url)
         e == IF net = "down" THEN "ErrTransport" ELSE "ErrRobotsParse" IN
       /\ robotsReqs' = [robotsReqs EXCEPT ![h] = @ + 1]
       /\ stack' = SetTop(t, [Fail(f, e) EXCEPT !.robotsIO = TRUE])
  /\ UNCHANGED <<config, registries, store, robotsMap, lastRet, tree, pageReqs,
                 robotsOK, okTop, topCalls, faults, net, sideVars, mu, errVars>>

\* checkRobots: h.mu.Lock() ahead of the write
RobotsStoreLock(t) ==
  /\ At(t, "robotsStore")
  /\ LET f == Top(t) IN
       /\ mu[f.recv] = 0
       /\ mu' = Locked(f.recv, t)
       /\ stack' = SetTop(t, [f EXCEPT !.pc = "robotsWrite"])
  /\ StackAndMu

\* checkRobots that keeps the entry another call has written
RobotsStore_keepFirst(t) ==
  /\ At(t, "robotsWrite")
  /\ LET f == Top(t) IN
       /\ robotsMap' = IF robotsMap[Host(f.url)].ok THEN robotsMap
                       ELSE [robotsMap EXCEPT ![Host(f.url)] = f.robot]
       /\ stack' = SetTop(t, [f EXCEPT !.pc = "robotsTest"])
       /\ mu' = Unlocked(f.recv)
  /\ UNCHANGED <<config, registries, store, lastRet, tree, pageReqs, robotsReqs,
                 robotsOK, okTop, topCalls, faults, net, sideVars, errVars>>

\* checkRobots that never writes the rule set into robotsMap
RobotsStore_forget(t) ==
  /\ At(t, "robotsWrite")
  /\ stack' = SetTop(t, [Top(t) EXCEPT !.pc = "robotsTest"])
  /\ mu' = Unlocked(Top(t).recv)
  /\ StackAndMu

\* checkRobots: h.robotsMap[parsedURL.Host] = robot and h.mu.Unlock()
RobotsStore(t) ==
  /\ At(t, "robotsWrite")
  /\ LET f == Top(t)
         race == MapUsers(t) # {} IN
       \/ /\ robotsMap' = [robotsMap EXCEPT ![Host(f.url)] = f.robot]
          /\ stack' = SetTop(t, [f EXCEPT !.pc = "robotsTest",
                                          !.mapRace = @ \/ race])
          /\ mu' = Unlocked(f.recv)
       \/ /\ race
          /\ robotsMap' = robotsMap
          /\ stack' = SetTop(t, Fatal(f))
          /\ mu' = mu
  /\ UNCHANGED <<config, registries, store, lastRet, tree, pageReqs, robotsReqs,
                 robotsOK, okTop, topCalls, faults, net, sideVars, errVars>>

\* checkRobots that does not act on the result of TestAgent
RobotsTest_skip(t) ==
  /\ At(t, "robotsTest")
  /\ stack' = SetTop(t, [Top(t) EXCEPT !.pc = "filters", !.passed = 1])
  /\ UNCHANGED <<config, registries, store, robotsMap, lastRet, tree, pageReqs,
                 robotsReqs, robotsOK, okTop, topCalls, faults, net, sideVars, mu, errVars>>

\* checkRobots: robot.TestAgent(parsedURL.Path, "Grawlr")
RobotsTest(t) ==
  /\ At(t, "robotsTest")
  /\ LET f == Top(t)
         ok == TestAgent(f.robot, Path(f.url)) IN
       /\ stack' = SetTop(t,
            IF ~ok THEN Reject(f, "ErrRobotsDisallowed")
            ELSE [f EXCEPT !.pc = "filters", !.passed = 1])
       /\ allocs' = IF ~ok THEN allocs + 1 ELSE allocs
  /\ StackAndAllocs

\* checkFilters without the visited check
checkFilters_noVisited(u) ==
  IF ~isURLAllowed(u) THEN "ErrForbiddenURL"
  ELSE "nil"

checkFilters(u) ==
  IF ~AllowRevisit /\ Visited(u) THEN "ErrVisitedURL"
  ELSE IF ~isURLAllowed(u) THEN "ErrForbiddenURL"
  ELSE "nil"

\* checkFilters that marks the URL as soon as the visited check has passed
CheckFilters_reserve(t) ==
  /\ At(t, "filters")
  /\ LET f == Top(t)
         e == checkFilters(urlString(f.url)) IN
       /\ stack' = SetTop(t, IF e # "nil" THEN Reject(f, e)
                             ELSE [f EXCEPT !.pc = "depth", !.passed = 2])
       /\ allocs' = IF e # "nil" THEN allocs + 1 ELSE allocs
       /\ store' = IF e # "nil" THEN store ELSE storeVisit(urlString(f.url))
  /\ UNCHANGED <<config, registries, robotsMap, lastRet, tree, pageReqs,
                 robotsReqs, robotsOK, okTop, topCalls, faults, net, sideVars,
                 mu, kept>>

CheckFilters(t) ==
  /\ At(t, "filters")
  /\ LET f == Top(t)
         e == IF f.recv = "clone" THEN checkFiltersOn(clone[1], urlString(f.url))
              ELSE checkFilters(urlString(f.url)) IN
       /\ stack' = SetTop(t, IF e # "nil" THEN Reject(f, e)
                             ELSE [f EXCEPT !.pc = "depth", !.passed = 2])
       /\ allocs' = IF e # "nil" THEN allocs + 1 ELSE allocs
  /\ StackAndAllocs

\* fetch that checks the depth of the calls made by the user only
CheckDepth_top(t) ==
  /\ At(t, "depth")
  /\ LET f == Top(t)
         e == IF f.via = "top" THEN checkDepth(f.depth) ELSE "nil" IN
       /\ stack' = SetTop(t, IF e # "nil" THEN Reject(f, e)
                             ELSE [f EXCEPT !.pc = "request", !.passed = 3])
       /\ allocs' = IF e # "nil" THEN allocs + 1 ELSE allocs
  /\ StackAndAllocs

\* fetch handing the depth of the calling request to checkDepth
CheckDepth_parent(t) ==
  /\ At(t, "depth")
  /\ LET f == Top(t)
         e == checkDepth(f.pdepth) IN
       /\ stack' = SetTop(t, IF e # "nil" THEN Reject(f, e)
                             ELSE [f EXCEPT !.pc = "request", !.passed = 3])
       /\ allocs' = IF e # "nil" THEN allocs + 1 ELSE allocs
  /\ UNCHANGED <<config, registries, store, robotsMap, lastRet, tree, pageReqs,
                 robotsReqs, robotsOK, okTop, topCalls, faults, net, sideVars, mu,
                 kept>>

CheckDepth(t) ==
  /\ At(t, "depth")
  /\ LET f == Top(t)
         e == IF f.recv = "clone" THEN checkDepthOn(clone[1], f.depth)
              ELSE checkDepth(f.depth) IN
       /\ stack' = SetTop(t, IF e # "nil" THEN Reject(f, e)
                             ELSE [f EXCEPT !.pc = "request", !.passed = 3])
       /\ allocs' = IF e # "nil" THEN allocs + 1 ELSE allocs
  /\ StackAndAllocs

\* the number of middlewares registered on the two Harvesters
Registered ==
  Len(requestMiddlewares) + Len(responseMiddlewares) + Len(htmlMiddlewares)
  + IF clone = <<>> THEN 0
    ELSE Len(clone[1].requestMiddlewares) + Len(clone[1].responseMiddlewares)
         + Len(clone[1].htmlMiddlewares)

\* RequestDo, ResponseDo or HtmlDo (via) called by a goroutine, to append mw
\* to a registry of the Harvester recv
RegFrame(via, mw, recv) ==
  [NewFrame(<<>>, 0, via, 0) EXCEPT !.pc = "regLock", !.mws = <<mw>>,
                                    !.recv = recv]

\* RequestDo / ResponseDo / HtmlDo: h.mu.Lock()
RegLock(t) ==
  /\ At(t, "regLock")
  /\ LET f == Top(t) IN
       /\ mu[f.recv] = 0
       /\ mu' = Locked(f.recv, t)
       /\ stack' = SetTop(t, [f EXCEPT !.pc = "regAppend"])
  /\ StackAndMu

\* RequestDo / ResponseDo / HtmlDo: the append to the registry, the deferred
\* h.mu.Unlock() and the return
RegAppend(t) ==
  /\ At(t, "regAppend")
  /\ LET f == Top(t) IN
       /\ requestMiddlewares' = IF f.via = "RequestDo"
                                THEN Append(requestMiddlewares, f.mws[1])
                                ELSE requestMiddlewares
       /\ responseMiddlewares' = IF f.via = "ResponseDo"
                                 THEN Append(responseMiddlewares, f.mws[1])
                                 ELSE responseMiddlewares
       /\ htmlMiddlewares' = IF f.via = "HtmlDo"
                             THEN Append(htmlMiddlewares, f.mws[1])
                             ELSE htmlMiddlewares
       /\ mu' = Unlocked(f.recv)
  /\ stack' = [stack EXCEPT ![t] = SubSeq(@, 1, Len(@) - 1)]
  /\ UNCHANGED <<config, store, robotsMap, lastRet, tree, pageReqs, robotsReqs,
                 robotsOK, okTop, topCalls, faults, net, sideVars, errVars>>

\* the threads other than t that are between the Lock and the Unlock of an
\* append to the registry of via of the Harvester recv
Writing(t, via, recv) ==
  {w \in Threads \ {t} :
     At(w, "regAppend") /\ Top(w).via = via /\ Top(w).recv = recv}

\* what thread t may get when it reads the registry reg without the mutex.
\* With no append under way it is reg. A read that overlaps an append is a
\* data race on the three words of the slice header: it gives reg, reg with
\* the appended middleware, or a torn header, the new length over the old
\* array, whose last element is no registered middleware
Reads(t, via, recv, reg) ==
  {reg}
  \cup {Append(reg, Top(w).mws[1]) : w \in Writing(t, via, recv)}
  \cup {Append(reg, "torn") : w \in Writing(t, via, recv)}

\* fetch: build the Request, and handleRequestDo starts to range over the
\* registry (the range expression is evaluated once, without the mutex)
NewRequest(t) ==
  /\ At(t, "request")
  /\ LET f == Top(t) IN
       \E m \in Reads(t, "RequestDo", f.recv, Recv(f).requestMiddlewares) :
         stack' = SetTop(t, [f EXCEPT
                    !.pc = "reqhooks", !.i = 1, !.mws = m,
                    !.raced = @ \/ Writing(t, "RequestDo", f.recv) # {}])
  /\ OnlyStack

\* Harvester.Visit handing the depth of the calling request on
HarvesterVisit_carry(f) == NewFrame(urlString(f.url), f.depth + 1, "harvester", f.depth)

\* Harvester.Visit called from a hook: fetch(u, GET, 0)
HarvesterVisit(f) == NewFrame(urlString(f.url), 0, "harvester", f.depth)
\* Request.Visit called from a hook: harvester.fetch(u, GET, r.Depth + 1)
RequestVisit(f) == NewFrame(urlString(f.url), f.depth + 1, "request", f.depth)

\* the call a middleware of kind mw makes on the request of frame f
HookCall(mw, f) == IF mw = "hvisit" THEN HarvesterVisit(f) ELSE RequestVisit(f)
\* the middlewares that call Visit
Revisits(mw) == mw \in {"hvisit", "rvisit"}

\* middlewares that register a middleware on the Harvester they run on:
\* h.RequestDo(setA), h.ResponseDo(status), h.HtmlDo("a", ...)
RegHookKinds == {"doRequestDo", "doResponseDo", "doHtmlDo"}

\* the registrations that are under way
Pending ==
  Cardinality({w \in Threads :
                 stack[w] # <<>> /\ Top(w).pc \in {"regLock", "regAppend"}})

Registers(mw) == mw \in RegHookKinds /\ Registered + Pending < MaxPipeHooks

RegCall(mw) ==
  IF mw = "doRequestDo" THEN RegFrame("RequestDo", "setA", "h")
  ELSE IF mw = "doResponseDo" THEN RegFrame("ResponseDo", "status", "h")
  ELSE RegFrame("HtmlDo", "a", "h")

\* what a middleware calls: Visit, a registration, or nothing
Calls(t, mw) == (Revisits(mw) /\ Len(stack[t]) < MaxStack) \/ Registers(mw)

Callee(mw, f) == IF Revisits(mw) THEN HookCall(mw, f) ELSE RegCall(mw)

\* req.Headers.Set("User-Agent", v) in a request middleware
ReqHookEffect(mw, f) ==
  IF mw = "setA" THEN [f EXCEPT !.hdr = "A"]
  ELSE IF mw = "setB" THEN [f EXCEPT !.hdr = "B"]
  ELSE f

\* io.ReadAll(res.Body) in a response middleware: what it returns
ReadAll(f) == SubSeq(f.b, f.pos + 1, Len(f.b))
\* what a response middleware of kind mw reads, and where it leaves the
\* reader
ResHookReads(mw, f) == IF mw = "readAll" THEN ReadAll(f) ELSE <<>>
ResHookEffect(mw, f) ==
  IF mw = "readAll" THEN [f EXCEPT !.pos = Len(f.b)] ELSE f

\* handleRequestDo that stops after the first middleware
RunRequestHook_break(t) ==
  /\ At(t, "reqhooks")
  /\ LET f == Top(t) IN
       /\ f.i <= Len(f.mws)
       /\ LET mw == f.mws[f.i]
              g == [ReqHookEffect(mw, f) EXCEPT
                      !.i = Len(f.mws) + 1,
                      !.log = Append(@, Ev("req", f.i, 0, <<>>, f.hdr))] IN
            stack' = IF Revisits(mw) /\ Len(stack[t]) < MaxStack
                     THEN Push(t, g, HookCall(mw, f))
                     ELSE SetTop(t, g)
  /\ UNCHANGED <<config, registries, store, robotsMap, lastRet, tree, pageReqs,
                 robotsReqs, robotsOK, okTop, topCalls, faults, net, sideVars, mu, errVars>>

\* handleRequestDo: m(req) for the next middleware; a middleware stops
\* re-visiting once MaxStack calls are nested
RunRequestHook(t) ==
  /\ At(t, "reqhooks")
  /\ LET f == Top(t) IN
       /\ f.i <= Len(f.mws)
       /\ LET mw == f.mws[f.i]
              g == [ReqHookEffect(mw, f) EXCEPT
                      !.i = @ + 1, !.ran = @ \cup {mw},
                      !.log = Append(@, Ev("req", f.i, 0, <<>>, f.hdr))] IN
            stack' = IF Calls(t, mw)
                     THEN Push(t, g, Callee(mw, f))
                     ELSE SetTop(t, g)
  /\ OnlyStack

RequestHooksDone(t) ==
  /\ At(t, "reqhooks")
  /\ Top(t).i > Len(Top(t).mws)
  /\ stack' = SetTop(t, [Top(t) EXCEPT !.pc = "do"])
  /\ OnlyStack

\* fetch that calls store.Visit ahead of Client.Do
ClientDo_markFirst(t) ==
  /\ At(t, "do")
  /\ LET f == Top(t) IN
       /\ pageReqs' = [pageReqs EXCEPT ![f.url] = @ + 1]
       /\ store' = storeVisit(urlString(f.url))
       /\ stack' = SetTop(t, [f EXCEPT !.pc = "inflight", !.pageIO = TRUE,
                                       !.sent = f.hdr, !.marked = TRUE,
                                       !.log = Append(@, Ev("do", 0, 0, <<>>, f.hdr))])
  /\ tree' = [tree EXCEPT ![t].page = @ + 1]
  /\ UNCHANGED <<config, registries, robotsMap, lastRet, robotsReqs,
                 robotsOK, okTop, topCalls, faults, net, policyVars, mu,
                 storeCalls, clone, errVars>>

\* fetch: h.Client.Do(req) sends the request, which carries h.Context
ClientDo(t) ==
  /\ At(t, "do")
  /\ LET f == Top(t) IN
       /\ pageReqs' = [pageReqs EXCEPT ![f.url] = @ + 1]
       /\ stack' = SetTop(t, [f EXCEPT !.pc = "inflight", !.pageIO = TRUE,
                                       !.sent = f.hdr,
                                       !.log = Append(@, Ev("do", 0, 0, <<>>, f.hdr))])
  /\ tree' = [tree EXCEPT ![t].page = @ + 1]
  /\ UNCHANGED <<config, registries, store, robotsMap, lastRet, robotsReqs,
                 robotsOK, okTop, topCalls, faults, net, sideVars, mu, errVars>>

\* fetch with a request that does not carry h.Context
ClientDoOK_noContext(t) ==
  /\ At(t, "inflight")
  /\ net # "down"
  /\ stack' = SetTop(t, [Top(t) EXCEPT !.pc = "mark"])
  /\ UNCHANGED <<config, registries, store, robotsMap, lastRet, tree, pageReqs,
                 robotsReqs, robotsOK, okTop, topCalls, faults, net, sideVars, mu, errVars>>

\* fetch: h.Client.Do(req) returns a response
ClientDoOK(t) ==
  /\ At(t, "inflight")
  /\ net # "down"
  /\ Context = "live"
  /\ stack' = SetTop(t, [Top(t) EXCEPT !.pc = "mark"])
  /\ OnlyStack

\* fetch that sends the request once more after a transport error
ClientDoFail_retry(t) ==
  /\ At(t, "inflight")
  /\ net = "down"
  /\ stack' = SetTop(t, IF Cardinality({k \in 1..Len(Top(t).log) :
                                          Top(t).log[k].ev = "do"}) < 2
                         THEN [Top(t) EXCEPT !.pc = "do"]
                         ELSE Fail(Top(t), "ErrTransport"))
  /\ UNCHANGED <<config, registries, store, robotsMap, lastRet, tree, pageReqs,
                 robotsReqs, robotsOK, okTop, topCalls, faults, net, policyVars, mu, storeCalls,
                 clone, errVars>>

\* fetch: h.Client.Do(req) returns a transport error
ClientDoFail(t) ==
  /\ At(t, "inflight")
  /\ net = "down"
  /\ stack' = SetTop(t, Fail(Top(t), "ErrTransport"))
  /\ OnlyStack

\* fetch: h.Client.Do(req) returns the error that wraps context.Canceled
ClientDoCanceled(t) ==
  /\ At(t, "inflight")
  /\ Context = "canceled"
  /\ stack' = SetTop(t, Fail(Top(t), "ErrCanceled"))
  /\ OnlyStack

\* the cancel function of the context the Harvester was constructed with;
\* it reaches the HTTP calls that are in flight with that context
Cancel ==
  /\ Context = "live"
  /\ Context' = "canceled"
  /\ stack' = [t \in Threads |->
                 [k \in 1..Len(stack[t]) |->
                    IF stack[t][k].pc = "inflight"
                    THEN [stack[t][k] EXCEPT !.aborted = TRUE]
                    ELSE stack[t][k]]]
  /\ UNCHANGED <<AllowedURLs, DisallowedURLs, DepthLimit, AllowRevisit,
                 ignoreRobots, registries, store, robotsMap, lastRet,
                 tree, pageReqs, robotsReqs, robotsOK, okTop, topCalls, faults,
                 net, sideVars, mu, errVars>>

\* fetch that calls store.Visit only for a response whose body can be read
StoreVisit_ifReadable(t) ==
  /\ At(t, "mark")
  /\ LET f == Top(t) IN
       /\ store' = IF net = "badbody" THEN store
                   ELSE storeVisit(urlString(f.url))
       /\ stack' = SetTop(t, [f EXCEPT !.pc = "readbody",
                                       !.marked = net # "badbody"])
  /\ UNCHANGED <<config, registries, robotsMap, lastRet, tree, pageReqs,
                 robotsReqs, robotsOK, okTop, topCalls, faults, net, sideVars, mu, errVars>>

\* fetch without the call of store.Visit
StoreVisit_skip(t) ==
  /\ At(t, "mark")
  /\ stack' = SetTop(t, [Top(t) EXCEPT !.pc = "readbody"])
  /\ OnlyStack

\* fetch: h.store.Visit(req.URL.String())
StoreVisit(t) ==
  /\ At(t, "mark")
  /\ LET f == Top(t) IN
       /\ store' = storeVisit(urlString(f.url))
       /\ stack' = SetTop(t, [f EXCEPT !.pc = "readbody", !.marked = TRUE])
  /\ UNCHANGED <<config, registries, robotsMap, lastRet, tree, pageReqs,
                 robotsReqs, robotsOK, okTop, topCalls, faults, net, sideVars, mu, errVars>>

\* fetch: io.ReadAll(res.Body) succeeds, a reader over the bytes is made
\* and sought to its start, the Response is built with the reader as its
\* Body, and handleResponseDo starts to range over the registry
ReadBodyOK(t) ==
  /\ At(t, "readbody")
  /\ net # "badbody"
  /\ LET f == Top(t) IN
       \E m \in Reads(t, "ResponseDo", f.recv, Recv(f).responseMiddlewares) :
         stack' = SetTop(t, [f EXCEPT
                    !.pc = "reshooks", !.i = 1, !.mws = m,
                    !.b = Body(f.url), !.pos = 0,
                    !.raced = @ \/ Writing(t, "ResponseDo", f.recv) # {}])
  /\ OnlyStack

\* fetch: io.ReadAll(res.Body) fails: the connection breaks, or the context
\* of the request has been canceled before the body has arrived
ReadBodyFail(t) ==
  /\ At(t, "readbody")
  /\ net = "badbody" \/ Context = "canceled"
  /\ stack' = SetTop(t, Fail(Top(t), IF net = "badbody" THEN "ErrReadBody"
                                     ELSE "ErrBodyCanceled"))
  /\ OnlyStack

\* handleResponseDo that stops after the first middleware
RunResponseHook_break(t) ==
  /\ At(t, "reshooks")
  /\ LET f == Top(t) IN
       /\ f.i <= Len(f.mws)
       /\ LET mw == f.mws[f.i]
              g == [ResHookEffect(mw, f) EXCEPT
                      !.i = Len(f.mws) + 1,
                      !.log = Append(@, Ev("res", f.i, 0, ResHookReads(mw, f), f.hdr))] IN
            stack' = IF Revisits(mw) /\ Len(stack[t]) < MaxStack
                     THEN Push(t, g, HookCall(mw, f))
                     ELSE SetTop(t, g)
  /\ tree' = [tree EXCEPT ![t].resp = @ + 1]
  /\ UNCHANGED <<config, registries, store, robotsMap, lastRet, pageReqs,
                 robotsReqs, robotsOK, okTop, topCalls, faults, net, sideVars, mu, errVars>>

\* handleResponseDo: m(res) for the next middleware
RunResponseHook(t) ==
  /\ At(t, "reshooks")
  /\ LET f == Top(t) IN
       /\ f.i <= Len(f.mws)
       /\ LET mw == f.mws[f.i]
              g == [ResHookEffect(mw, f) EXCEPT
                      !.i = @ + 1, !.ran = @ \cup {mw},
                      !.log = Append(@, Ev("res", f.i, 0, ResHookReads(mw, f), f.hdr))] IN
            stack' = IF Calls(t, mw)
                     THEN Push(t, g, Callee(mw, f))
                     ELSE SetTop(t, g)
  /\ tree' = [tree EXCEPT ![t].resp = @ + 1]
  /\ UNCHANGED <<config, registries, store, robotsMap, lastRet, pageReqs,
                 robotsReqs, robotsOK, okTop, topCalls, faults, net, sideVars, mu, errVars>>

\* handleHtmlDo: goquery.NewDocumentFromReader(res.Body) parses what the
\* reader still has to give, and the loop over htmlMiddlewares starts
HandleHtmlDo(t) ==
  /\ At(t, "reshooks")
  /\ Top(t).i > Len(Top(t).mws)
  /\ net # "badhtml"
  /\ LET f == Top(t) IN
       \E m \in Reads(t, "HtmlDo", f.recv, Recv(f).htmlMiddlewares) :
         stack' = SetTop(t, [f EXCEPT
                    !.pc = "html", !.i = 1, !.j = 1, !.mws = m,
                    !.doc = ReadAll(f), !.pos = Len(f.b),
                    !.raced = @ \/ Writing(t, "HtmlDo", f.recv) # {}])
  /\ OnlyStack

\* doc.Find(selector): the positions of the matching elements, in document
\* order, from position k on
RECURSIVE FindFrom(_, _, _)
FindFrom(doc, selector, k) ==
  IF k > Len(doc) THEN <<>>
  ELSE IF doc[k] = selector THEN <<k>> \o FindFrom(doc, selector, k + 1)
  ELSE FindFrom(doc, selector, k + 1)
Find(doc, selector) == FindFrom(doc, selector, 1)

\* handleHtmlDo calling the callback for the first match only
RunHtmlHook_first(t) ==
  /\ At(t, "html")
  /\ LET f == Top(t) IN
       /\ f.i <= Len(f.mws)
       /\ LET sel == Find(f.doc, f.mws[f.i]) IN
            stack' = SetTop(t,
              IF f.j <= Len(sel) /\ f.j = 1
              THEN [f EXCEPT !.j = @ + 1,
                             !.log = Append(@, Ev("el", f.i, sel[f.j],
                                                  <<f.doc[sel[f.j]]>>, f.hdr))]
              ELSE [f EXCEPT !.i = @ + 1, !.j = 1])
  /\ UNCHANGED <<config, registries, store, robotsMap, lastRet, tree, pageReqs,
                 robotsReqs, robotsOK, okTop, topCalls, faults, net, sideVars, mu, errVars>>

\* handleHtmlDo: doc.Find(m.Selector).Each(...) calls m.Function(el) for the
\* next matching element, or goes on to the next middleware
RunHtmlHook(t) ==
  /\ At(t, "html")
  /\ LET f == Top(t) IN
       /\ f.i <= Len(f.mws)
       /\ LET sel == Find(f.doc, f.mws[f.i]) IN
            stack' = SetTop(t,
              IF f.j <= Len(sel)
              THEN [f EXCEPT !.j = @ + 1, !.ran = @ \cup {f.mws[f.i]},
                             !.log = Append(@, Ev("el", f.i, sel[f.j],
                                                  <<f.doc[sel[f.j]]>>, f.hdr))]
              ELSE [f EXCEPT !.i = @ + 1, !.j = 1])
  /\ OnlyStack

\* handleHtmlDo: goquery.NewDocumentFromReader returns an error, which is
\* logged; handleHtmlDo returns nothing, and fetch goes on to return nil
HandleHtmlDoFail(t) ==
  /\ At(t, "reshooks")
  /\ Top(t).i > Len(Top(t).mws)
  /\ net = "badhtml"
  /\ stack' = SetTop(t, [Top(t) EXCEPT !.pc = "ret", !.err = "nil",
                                       !.htmlErr = TRUE])
  /\ OnlyStack

\* fetch: handleHtmlDo has returned, return nil
HtmlDone(t) ==
  /\ At(t, "html")
  /\ Top(t).i > Len(Top(t).mws)
  /\ stack' = SetTop(t, [Top(t) EXCEPT !.pc = "ret", !.err = "nil"])
  /\ OnlyStack

\* the stack of thread t after its innermost call has returned its err to
\* the middleware that made the call, or to the user
Popped(t) ==
  LET n == Len(stack[t]) IN
    IF n = 1 THEN <<>>
    ELSE [k \in 1..(n - 1) |->
            IF k = n - 1
            THEN [stack[t][k] EXCEPT !.inner = @ \cup {stack[t][n].err}]
            ELSE stack[t][k]]

\* the same, with an error of the call becoming the error of the fetch the
\* middleware runs in
Popped_propagate(t) ==
  LET n == Len(stack[t]) IN
    IF n = 1 THEN <<>>
    ELSE [k \in 1..(n - 1) |->
            IF k = n - 1
            THEN IF stack[t][n].err = "nil"
                 THEN [stack[t][k] EXCEPT !.inner = @ \cup {stack[t][n].err}]
                 ELSE [stack[t][k] EXCEPT !.inner = @ \cup {stack[t][n].err},
                                          !.pc = "ret",
                                          !.err = stack[t][n].err]
            ELSE stack[t][k]]

\* fetch handing the error of a nested call on to its own caller
Return_propagate(t) ==
  /\ At(t, "ret")
  /\ LET f == Top(t) IN
       /\ lastRet' = [lastRet EXCEPT ![t] =
            << [url |-> f.url, depth |-> f.depth, via |-> f.via,
                pdepth |-> f.pdepth, err |-> f.err, robotsIO |-> f.robotsIO,
                pageIO |-> f.pageIO, passed |-> f.passed,
                page |-> tree[t].page, resp |-> tree[t].resp,
                net |-> net, robot |-> f.robot,
                hdr |-> f.hdr, sent |-> f.sent, b |-> f.b, doc |-> f.doc,
                marked |-> f.marked, aborted |-> f.aborted, errv |-> f.errv,
                log |-> f.log, recv |-> f.recv, ran |-> f.ran,
                inner |-> f.inner, raced |-> f.raced, htmlErr |-> f.htmlErr,
                mapRace |-> f.mapRace,
                seen |-> f.url \in okTop] >>]
       /\ okTop' = IF f.via = "top" /\ f.err = "nil" THEN okTop \cup {f.url}
                   ELSE okTop
  /\ stack' = [stack EXCEPT ![t] = Popped_propagate(t)]
  /\ UNCHANGED <<config, registries, store, robotsMap, tree, pageReqs,
                 robotsReqs, robotsOK, topCalls, faults, net, policyVars, mu, storeCalls,
                 clone, errVars>>

\* fetch returns err to its caller: to the user, or into the hook that
\* made the call, which has no way to hand it on
Return(t) ==
  /\ At(t, "ret")
  /\ LET f == Top(t) IN
       /\ lastRet' = [lastRet EXCEPT ![t] =
            << [url |-> f.url, depth |-> f.depth, via |-> f.via,
                pdepth |-> f.pdepth, err |-> f.err, robotsIO |-> f.robotsIO,
                pageIO |-> f.pageIO, passed |-> f.passed,
                page |-> tree[t].page, resp |-> tree[t].resp,
                net |-> net, robot |-> f.robot,
                hdr |-> f.hdr, sent |-> f.sent, b |-> f.b, doc |-> f.doc,
                marked |-> f.marked, aborted |-> f.aborted, errv |-> f.errv,
                log |-> f.log, recv |-> f.recv, ran |-> f.ran,
                inner |-> f.inner, raced |-> f.raced, htmlErr |-> f.htmlErr,
                mapRace |-> f.mapRace,
                seen |-> f.url \in okTop] >>]
       /\ okTop' = IF f.via = "top" /\ f.err = "nil" THEN okTop \cup {f.url}
                   ELSE okTop
  /\ stack' = [stack EXCEPT ![t] = Popped(t)]
  /\ UNCHANGED <<config, registries, store, robotsMap, tree, pageReqs,
                 robotsReqs, robotsOK, topCalls, faults, net, policyVars, mu, storeCalls,
                 clone, errVars>>

\* the steps of fetch that do not depend on a registered middleware
Gates(t) ==
  \/ UrlParse(t)
  \/ RobotsLookup(t)
  \/ RobotsRead(t)
  \/ RobotsFetchOK(t)
  \/ RobotsFetchFail(t)
  \/ RobotsStoreLock(t)
  \/ RobotsStore(t)
  \/ RobotsTest(t)
  \/ CheckFilters(t)
  \/ CheckDepth(t)
  \/ NewRequest(t)
  \/ RequestHooksDone(t)
  \/ ClientDo(t)
  \/ ClientDoOK(t)
  \/ ClientDoFail(t)
  \/ StoreVisit(t)
  \/ ReadBodyOK(t)
  \/ ReadBodyFail(t)
  \/ HandleHtmlDo(t)
  \/ HtmlDone(t)
  \/ Return(t)

Hooks(t) ==
  \/ RunRequestHook(t)
  \/ RunResponseHook(t)

\* the hooks are registered before the first Visit
Setup ==
  /\ topCalls = 0
  /\ Len(requestMiddlewares) + Len(responseMiddlewares) < MaxHooks
  /\ \/ \E mw \in ReqHookKinds : RequestDo(mw)
     \/ \E mw \in ResHookKinds : ResponseDo(mw)

\* one call of the user; the calls nested in it are made by the hooks
UserVisit(t) ==
  /\ topCalls = 0
  /\ \E u \in Seeds, n \in NetModes : Visit(t, u, n)

\* one call tree on a Harvester with registered hooks
Next == Setup \/ UserVisit(1) \/ Gates(1) \/ Hooks(1)

Spec == Init /\ [][Next]_vars

\* a Harvester with a depth limit whose middlewares re-enter through
\* Request.Visit only, each time on the URL of their own request (a page that
\* links to itself); Visit runs on the goroutine of its caller, which goes
\* on until the call returns
InitDepth ==
  /\ Init
  /\ DepthLimit > 0
  /\ AllowedURLs = <<>>

SetupDepth ==
  /\ topCalls = 0
  /\ Len(requestMiddlewares) + Len(responseMiddlewares) < MaxHooks
  /\ RequestDo("rvisit") \/ ResponseDo("rvisit")

Running(t) == Gates(t) \/ Hooks(t)

NextDepth == SetupDepth \/ UserVisit(1) \/ Running(1)

SpecDepth == InitDepth /\ [][NextDepth]_vars /\ WF_vars(Running(1))

\* one caller of a Harvester without hooks; every Visit runs to completion
\* before the next one starts
SeqVisit(t) ==
  /\ topCalls < MaxSeqCalls
  /\ \E u \in Seeds, n \in NetModes : Visit(t, u, n)

NextSeq == SeqVisit(1) \/ Gates(1)

SpecSeq == Init /\ [][NextSeq]_vars

\* the caller of Visit keeps the error of the call that has just returned,
\* when it is one of the rejections
Keep(t) ==
  /\ stack[t] = <<>>
  /\ lastRet[t] # <<>>
  /\ lastRet[t][1].err \in Rejections
  /\ \A k \in 1..Len(kept) : kept[k].addr # lastRet[t][1].errv.addr
  /\ kept' = Append(kept, [kind |-> lastRet[t][1].err,
                           url |-> lastRet[t][1].url,
                           depth |-> lastRet[t][1].depth,
                           msg |-> lastRet[t][1].errv.msg,
                           addr |-> lastRet[t][1].errv.addr])
  /\ UNCHANGED <<config, registries, store, robotsMap, stack, lastRet, tree,
                 pageReqs, robotsReqs, robotsOK, okTop, topCalls, faults, net,
                 sideVars, mu, allocs>>

NextErr == NextSeq \/ Keep(1)

SpecErr == Init /\ [][NextErr]_vars

\* ---------------------------------------------- the middlewares of one fetch
\* a Harvester with middlewares that do not visit, registered before the
\* one Visit of its user
InitPipe ==
  /\ Init
  /\ AllowedURLs = <<>>
  /\ DepthLimit = 0
  /\ ~AllowRevisit

SetupPipe ==
  /\ topCalls = 0
  /\ Len(requestMiddlewares) + Len(responseMiddlewares) + Len(htmlMiddlewares)
       < MaxPipeHooks
  /\ \/ \E mw \in ReqPipeKinds : RequestDo(mw)
     \/ \E mw \in ResPipeKinds : ResponseDo(mw)
     \/ \E gqSelector \in Selectors : HtmlDo(gqSelector)

HtmlHooks(t) == RunHtmlHook(t)

NextPipe == SetupPipe \/ UserVisit(1) \/ Gates(1) \/ Hooks(1) \/ HtmlHooks(1)

SpecPipe == InitPipe /\ [][NextPipe]_vars

\* a Harvester with a few middlewares that do not visit, whose user calls
\* Visit on the same URL again and again, one call after the other
SetupFew ==
  /\ topCalls = 0
  /\ Registered < MaxHooks
  /\ \/ \E mw \in ReqPipeKinds : RequestDo(mw)
     \/ \E mw \in ResPipeKinds : ResponseDo(mw)
     \/ \E gqSelector \in Selectors : HtmlDo(gqSelector)

SameVisit(t) ==
  /\ topCalls < MaxSeqCalls
  /\ \E n \in NetModes : Visit(t, <<"h1">>, n)

NextAgain == SetupFew \/ SameVisit(1) \/ Gates(1) \/ Hooks(1) \/ HtmlHooks(1)

SpecAgain == InitPipe /\ [][NextAgain]_vars

\* the same, with pages whose body the HTML parser may return an error for
HtmlModes == NetModes \cup {"badhtml"}

HtmlVisit(t) ==
  /\ topCalls = 0
  /\ \E u \in Seeds, n \in HtmlModes : Visit(t, u, n)

NextHtml ==
  \/ SetupPipe \/ HtmlVisit(1) \/ Gates(1) \/ Hooks(1) \/ HtmlHooks(1)
  \/ HandleHtmlDoFail(1)

SpecHtml == InitPipe /\ [][NextHtml]_vars

\* the same Harvester, constructed with lists that shut out the robots.txt
\* URL of a host: by a deny prefix, or by an allow list it is not on
RobotsLists ==
  { << << <<"h2">> >>, << <<"h1">> >> >>,
    << << <<"h1", "a">> >>, (<<>>) >> }

InitRobots ==
  /\ NewHarvester(RobotsLists)
  /\ DepthLimit = 0
  /\ ~AllowRevisit

SpecRobots == InitRobots /\ [][NextPipe]_vars

\* the same, with a context that is canceled at any moment
Canceled(t) == ClientDoCanceled(t)

NextCtx == NextPipe \/ Cancel \/ Canceled(1)

SpecCtx == InitPipe /\ [][NextCtx]_vars

\* ------------------------------------------------ a Harvester and its clone
\* the middlewares the user registers on the Harvester h, and those
\* registered on its clone: different functions
HooksOfH == [req |-> {"setA"}, res |-> {"readAll"}, html |-> {"a"}]
HooksOfClone == [req |-> {"setB"}, res |-> {"status"}, html |-> {"p"}]

\* Clone handing the registries of the original on to the new Harvester
Clone_keepHooks ==
  /\ clone = <<>>
  /\ clone' = << [AllowedURLs |-> AllowedURLs,
                  DisallowedURLs |-> DisallowedURLs,
                  DepthLimit |-> DepthLimit,
                  AllowRevisit |-> AllowRevisit,
                  Context |-> Context,
                  requestMiddlewares |-> requestMiddlewares,
                  responseMiddlewares |-> responseMiddlewares,
                  htmlMiddlewares |-> htmlMiddlewares,
                  ignoreRobots |-> ignoreRobots] >>
  /\ UNCHANGED <<config, registries, store, robotsMap, stack, lastRet, tree,
                 pageReqs, robotsReqs, robotsOK, okTop, topCalls, faults, net,
                 policyVars, mu, storeCalls, errVars>>

\* a Clone that gives the new Harvester a store and a robots map of its own
Clone_own ==
  /\ clone = <<>>
  /\ clone' = << [AllowedURLs |-> AllowedURLs,
                  DisallowedURLs |-> DisallowedURLs,
                  DepthLimit |-> DepthLimit,
                  AllowRevisit |-> AllowRevisit,
                  Context |-> Context,
                  requestMiddlewares |-> <<>>,
                  responseMiddlewares |-> <<>>,
                  htmlMiddlewares |-> <<>>,
                  ignoreRobots |-> ignoreRobots] >>
  /\ store' = {}
  /\ robotsMap' = [h \in Hosts |-> NoEntry]
  /\ UNCHANGED <<config, registries, stack, lastRet, tree,
                 pageReqs, robotsReqs, robotsOK, okTop, topCalls, faults, net,
                 policyVars, mu, storeCalls, errVars>>

\* Clone: a new Harvester with the fields of h and three new registries
\* (the model keeps one clone)
Clone ==
  /\ clone = <<>>
  /\ clone' = << [AllowedURLs |-> AllowedURLs,
                  DisallowedURLs |-> DisallowedURLs,
                  DepthLimit |-> DepthLimit,
                  AllowRevisit |-> AllowRevisit,
                  Context |-> Context,
                  requestMiddlewares |-> <<>>,
                  responseMiddlewares |-> <<>>,
                  htmlMiddlewares |-> <<>>,
                  ignoreRobots |-> ignoreRobots] >>
  /\ UNCHANGED <<config, registries, store, robotsMap, stack, lastRet, tree,
                 pageReqs, robotsReqs, robotsOK, okTop, topCalls, faults, net,
                 policyVars, mu, storeCalls, errVars>>

OnlyClone == UNCHANGED <<config, registries, store, robotsMap, stack, lastRet,
                         tree, pageReqs, robotsReqs, robotsOK, okTop, topCalls,
                         faults, net, policyVars, mu, storeCalls, errVars>>

\* RequestDo, ResponseDo and HtmlDo with the clone as their receiver
CloneRequestDo(mw) ==
  /\ clone # <<>>
  /\ clone' = << [clone[1] EXCEPT !.requestMiddlewares = Append(@, mw)] >>
  /\ OnlyClone

CloneResponseDo(mw) ==
  /\ clone # <<>>
  /\ clone' = << [clone[1] EXCEPT !.responseMiddlewares = Append(@, mw)] >>
  /\ OnlyClone

CloneHtmlDo(gqSelector) ==
  /\ clone # <<>>
  /\ clone' = << [clone[1] EXCEPT !.htmlMiddlewares = Append(@, gqSelector)] >>
  /\ OnlyClone

\* Harvester.Visit called by the user on the clone: clone.fetch(u, GET, 0)
CloneVisit(t, u, n) ==
  /\ clone # <<>>
  /\ stack[t] = <<>>
  /\ topCalls' = topCalls + 1
  /\ net' = n
  /\ IF n = "up" THEN faults' = faults
     ELSE faults < MaxFaults /\ faults' = faults + 1
  /\ stack' = [stack EXCEPT ![t] =
                 << [NewFrame(u, 0, "top", 0) EXCEPT !.recv = "clone"] >>]
  /\ tree' = [tree EXCEPT ![t] = [page |-> 0, resp |-> 0]]
  /\ UNCHANGED <<config, registries, store, robotsMap, lastRet, pageReqs,
                 robotsReqs, robotsOK, okTop, sideVars, mu, errVars>>

\* the user registers middlewares on h, before and after the Clone call,
\* and on the clone, and then visits with one of the two
SetupH ==
  /\ topCalls = 0
  /\ Registered < MaxHooks
  /\ \/ \E mw \in HooksOfH.req : RequestDo(mw)
     \/ \E mw \in HooksOfH.res : ResponseDo(mw)
     \/ \E gqSelector \in HooksOfH.html : HtmlDo(gqSelector)

SetupClone ==
  /\ topCalls = 0
  /\ Registered < MaxHooks
  /\ \/ \E mw \in HooksOfClone.req : CloneRequestDo(mw)
     \/ \E mw \in HooksOfClone.res : CloneResponseDo(mw)
     \/ \E gqSelector \in HooksOfClone.html : CloneHtmlDo(gqSelector)

UserClone == topCalls = 0 /\ Clone

UserCloneVisit(t) ==
  /\ topCalls = 0
  /\ \E u \in Seeds, n \in NetModes : CloneVisit(t, u, n)

NextClone ==
  \/ SetupH
  \/ UserClone
  \/ SetupClone
  \/ UserVisit(1)
  \/ UserCloneVisit(1)
  \/ Gates(1)
  \/ Hooks(1)
  \/ HtmlHooks(1)

SpecClone == Init /\ [][NextClone]_vars

\* ------------------------------------------- two callers of one Harvester
\* two goroutines call Visit on the Harvester, once each, at any time
Racers == {1, 2}

InitRace ==
  /\ Init
  /\ AllowedURLs = <<>>
  /\ DepthLimit = 0
  /\ ~AllowRevisit

RaceVisit(t) ==
  /\ lastRet[t] = <<>>
  /\ \E u \in Seeds, n \in NetModes : Visit(t, u, n)

NextRace == \E t \in Racers : RaceVisit(t) \/ Gates(t)

SpecRace == InitRace /\ [][NextRace]_vars

\* ---------------------------------- a Harvester and its clone, concurrently
\* one goroutine calls Visit on the Harvester and another one on its clone,
\* once each, at any time
CloneRaceVisit(t) ==
  /\ lastRet[t] = <<>>
  /\ \E u \in Seeds, n \in NetModes : CloneVisit(t, u, n)

NextCloneRace ==
  \/ UserClone
  \/ RaceVisit(1) \/ Gates(1)
  \/ CloneRaceVisit(2) \/ Gates(2)

SpecCloneRace == InitRace /\ [][NextCloneRace]_vars

\* ------------------------------ a Harvester and its clone, one after the other
\* one caller, without hooks: Clone is called between two Visits or before
\* them, and every Visit, on the Harvester or on its clone, runs to
\* completion before the next one starts
CloneBetween ==
  /\ \A t \in Threads : stack[t] = <<>>
  /\ Clone

CloneSeqVisit(t) ==
  /\ topCalls < MaxSeqCalls
  /\ \E u \in Seeds, n \in NetModes : CloneVisit(t, u, n)

NextCloneSeq == CloneBetween \/ SeqVisit(1) \/ CloneSeqVisit(1) \/ Gates(1)

SpecCloneSeq == InitPipe /\ [][NextCloneSeq]_vars

\* --------------------------- registrations while the Harvester is in use
\* two goroutines use the Harvester at any time: one calls Visit, the other
\* registers middlewares, and the middleware registered before the Visit
\* calls Visit, RequestDo, ResponseDo or HtmlDo itself
SetupLock ==
  /\ topCalls = 0
  /\ \A t \in Threads : stack[t] = <<>>
  /\ Registered = 0
  /\ \/ \E mw \in RegHookKinds \cup {"hvisit"} : RequestDo(mw)
     \/ \E mw \in RegHookKinds \cup {"hvisit"} : ResponseDo(mw)

\* a goroutine calls RequestDo, ResponseDo or HtmlDo, while fewer than
\* MaxHooks middlewares are registered
UserRegister(t) ==
  /\ stack[t] = <<>>
  /\ Registered + Pending < MaxHooks
  /\ \E mw \in RegHookKinds :
       stack' = [stack EXCEPT ![t] = <<RegCall(mw)>>]
  /\ OnlyStack

Register(t) == RegLock(t) \/ RegAppend(t)

\* one Visit of the root page of a host
LockVisit(t) ==
  /\ lastRet[t] = <<>>
  /\ \E n \in NetModes : Visit(t, <<"h1">>, n)

InitLock ==
  /\ InitRace
  /\ DisallowedURLs = <<>>

NextLock ==
  \/ SetupLock
  \/ LockVisit(1) \/ Gates(1) \/ Hooks(1) \/ HtmlHooks(1) \/ Register(1)
  \/ UserRegister(2) \/ Register(2)

SpecLock == InitLock /\ [][NextLock]_vars

\* ------------------------------------------------ the store by itself
\* a user of the InMemoryStore calls Visit(u): what the map was before the
\* call is kept with the call
CallStoreVisit(u) ==
  /\ Len(storeCalls) < MaxStoreCalls
  /\ store' = storeVisit(u)
  /\ storeCalls' = Append(storeCalls,
                          [op |-> "Visit", url |-> u, ret |-> TRUE,
                           before |-> store])
  /\ UNCHANGED <<config, registries, robotsMap, stack, lastRet, tree, pageReqs,
                 robotsReqs, robotsOK, okTop, topCalls, faults, net, policyVars, mu,
                 clone, errVars>>

\* a user of the InMemoryStore calls Visited(u)
CallStoreVisited(u) ==
  /\ Len(storeCalls) < MaxStoreCalls
  /\ store' = afterVisited(u)
  /\ storeCalls' = Append(storeCalls,
                          [op |-> "Visited", url |-> u, ret |-> Visited(u),
                           before |-> store])
  /\ UNCHANGED <<config, registries, robotsMap, stack, lastRet, tree, pageReqs,
                 robotsReqs, robotsOK, okTop, topCalls, faults, net, policyVars, mu,
                 clone, errVars>>

NextStore ==
  \/ \E u \in PageURLs : CallStoreVisit(urlString(u))
  \/ \E u \in PageURLs : CallStoreVisited(urlString(u))

SpecStore == Init /\ [][NextStore]_vars

\* ------------------------------------------------- the URL policy by itself
InitPolicy ==
  /\ AllowedURLs \in Lists
  /\ DisallowedURLs \in Lists
  /\ pu \in PolicyURLs
  /\ pres = <<>>
  /\ DepthLimit = 0
  /\ AllowRevisit = FALSE
  /\ Context = "live"
  /\ ignoreRobots = FALSE
  /\ requestMiddlewares = <<>>
  /\ responseMiddlewares = <<>>
  /\ htmlMiddlewares = <<>>
  /\ store = {}
  /\ robotsMap = [h \in Hosts |-> NoEntry]
  /\ stack = [t \in Threads |-> <<>>]
  /\ lastRet = [t \in Threads |-> <<>>]
  /\ tree = [t \in Threads |-> [page |-> 0, resp |-> 0]]
  /\ pageReqs = [u \in PageURLs |-> 0]
  /\ robotsReqs = [h \in Hosts |-> 0]
  /\ robotsOK = [h \in Hosts |-> 0]
  /\ okTop = {}
  /\ topCalls = 0
  /\ faults = 0
  /\ net = "up"
  /\ allocs = 0
  /\ kept = <<>>
  /\ clone = <<>>
  /\ storeCalls = <<>>
  /\ mu = [r \in {"h", "clone"} |-> 0]

\* a call of isURLAllowed(pu)
CallIsURLAllowed ==
  /\ pres = <<>>
  /\ pres' = <<isURLAllowed(pu)>>
  /\ UNCHANGED <<config, registries, store, robotsMap, stack, lastRet, tree,
                 pageReqs, robotsReqs, robotsOK, okTop, topCalls, faults, net, pu,
                 mu, storeCalls, clone, errVars>>

NextPolicy == CallIsURLAllowed

SpecPolicy == InitPolicy /\ [][NextPolicy]_vars

\* ------------------------------------------------------------------ claims
\* p is a prefix of s: s is p followed by some string
IsPrefixOf(p, s) == \E k \in 0..Len(s) : p = [i \in 1..k |-> s[i]]
MatchesSome(list, s) == \E i \in 1..Len(list) : IsPrefixOf(list[i], s)

Returned(t) == lastRet[t] # <<>>
Ret(t) == lastRet[t][1]
\* the call that returned last was a call of Harvester.Visit on a URL that parses
VisitReturned(t) ==
  /\ Returned(t)
  /\ Ret(t).via \in {"top", "harvester"}
  /\ parseOK(Ret(t).url)
\* the call that returned last was made by the user of the Harvester
UserReturned(t) == VisitReturned(t) /\ Ret(t).via = "top"
\* the calls of fetch that are running
Frames == UNION {{stack[t][i] : i \in 1..Len(stack[t])} : t \in Threads}

\* C1 as stated: for every URL u that has an entry of DisallowedURLs as a
\* prefix, Visit(u) returns the forbidden-URL error and issues no HTTP
\* request at all.
C1_Original ==
  \A t \in Threads :
    VisitReturned(t) /\ MatchesSome(DisallowedURLs, Ret(t).url) =>
      /\ Ret(t).err = "ErrForbiddenURL"
      /\ ~Ret(t).robotsIO
      /\ ~Ret(t).pageIO

\* C1 amended: for every URL u that has an entry of DisallowedURLs as a
\* prefix, Visit(u) never issues the HTTP request for the page and never
\* returns nil, and it returns the forbidden-URL error whenever the robots
\* check, which runs first, passes.
C1_DisallowedNeverFetched ==
  \A t \in Threads :
    VisitReturned(t) /\ MatchesSome(DisallowedURLs, Ret(t).url) =>
      /\ ~Ret(t).pageIO
      /\ Ret(t).err # "nil"
      /\ Ret(t).passed >= 1 => Ret(t).err = "ErrForbiddenURL"

C1_Witness ==
  /\ UserReturned(1)
  /\ MatchesSome(DisallowedURLs, Ret(1).url)
  /\ Ret(1).robotsIO
  /\ Ret(1).err = "ErrForbiddenURL"

\* C2 as stated: when AllowedURLs is not empty, for every URL u that has no
\* entry of AllowedURLs as a prefix, Visit(u) returns the forbidden-URL error
\* and the page is not fetched.
C2_Original ==
  \A t \in Threads :
    /\ VisitReturned(t)
    /\ AllowedURLs # <<>>
    /\ ~MatchesSome(AllowedURLs, Ret(t).url)
    => Ret(t).err = "ErrForbiddenURL" /\ ~Ret(t).pageIO

\* C2 amended: when AllowedURLs is not empty, for every URL u that has no
\* entry of AllowedURLs as a prefix, Visit(u) never fetches the page and never
\* returns nil, and it returns the forbidden-URL error whenever the robots
\* check, which runs first, passes.
C2_OutsideAllowNeverFetched ==
  \A t \in Threads :
    /\ VisitReturned(t)
    /\ AllowedURLs # <<>>
    /\ ~MatchesSome(AllowedURLs, Ret(t).url)
    => /\ ~Ret(t).pageIO
       /\ Ret(t).err # "nil"
       /\ Ret(t).passed >= 1 => Ret(t).err = "ErrForbiddenURL"

C2_Witness ==
  /\ UserReturned(1)
  /\ AllowedURLs # <<>>
  /\ ~MatchesSome(AllowedURLs, Ret(1).url)
  /\ ~MatchesSome(DisallowedURLs, Ret(1).url)
  /\ Ret(1).err = "ErrForbiddenURL"

\* C3: for every string u and every pair of lists, isURLAllowed(u) is true
\* exactly when no entry of DisallowedURLs is a prefix of u and AllowedURLs
\* is empty or has an entry that is a prefix of u.
C3_PolicyIsReference ==
  pres # <<>> =>
    pres[1] = (/\ ~MatchesSome(DisallowedURLs, pu)
               /\ (AllowedURLs = <<>> \/ MatchesSome(AllowedURLs, pu)))

\* a URL with a proper prefix in both lists is rejected
C3_Witness ==
  /\ pres = <<FALSE>>
  /\ \E i \in 1..Len(AllowedURLs) :
       IsPrefixOf(AllowedURLs[i], pu) /\ Len(AllowedURLs[i]) < Len(pu)
  /\ \E i \in 1..Len(DisallowedURLs) :
       IsPrefixOf(DisallowedURLs[i], pu) /\ Len(DisallowedURLs[i]) < Len(pu)

\* the only registered hook is a response hook that re-visits the URL of its
\* response through Request.Visit
OnlyRequestRevisit ==
  requestMiddlewares = <<>> /\ responseMiddlewares = <<"rvisit">>
\* no registered hook calls Request.Visit
OnlyHarvesterVisit ==
  \A i \in 1..Len(responseMiddlewares) : responseMiddlewares[i] # "rvisit"
DepthRejected ==
  \/ \E f \in Frames : f.err = "ErrDepthLimitExceeded"
  \/ \E t \in Threads : Returned(t) /\ Ret(t).err = "ErrDepthLimitExceeded"

\* C4: with DepthLimit = N > 0, AllowRevisit = true and one response hook
\* that always re-visits the same URL through Request.Visit, one call of
\* Harvester.Visit whose URL passes the gates and whose HTTP calls succeed
\* issues exactly N page requests and runs the response hook exactly N times.
C4_ExactlyNFetches ==
  /\ UserReturned(1)
  /\ OnlyRequestRevisit
  /\ AllowRevisit
  /\ DepthLimit > 0
  /\ Ret(1).passed = 3
  /\ Ret(1).net = "up"
  => Ret(1).page = DepthLimit /\ Ret(1).resp = DepthLimit

C4_Witness ==
  /\ UserReturned(1)
  /\ OnlyRequestRevisit
  /\ AllowRevisit
  /\ DepthLimit >= 2
  /\ Ret(1).err = "nil"
  /\ Ret(1).net = "up"
  /\ Ret(1).page = DepthLimit

\* C5: with DepthLimit = 0 no fetch, at whatever depth, is rejected with the
\* depth-limit-exceeded error.
C5_UnlimitedDepthNeverRejects ==
  DepthLimit = 0 => ~DepthRejected

\* a fetch nested two levels deep has passed the depth gate
C5_Witness ==
  /\ DepthLimit = 0
  /\ \E f \in Frames : f.depth >= 2 /\ f.passed = 3 /\ f.pageIO

\* C6: a call of Harvester.Visit runs at depth 0, also when a hook of a fetch
\* at depth d > 0 makes it; with DepthLimit > 0 and hooks that re-enter only
\* through Harvester.Visit no fetch is rejected by the depth gate.
C6_HarvesterVisitRunsAtDepthZero ==
  /\ \A f \in Frames : f.via \in {"top", "harvester"} => f.depth = 0
  /\ DepthLimit > 0 /\ OnlyHarvesterVisit => ~DepthRejected

\* a hook of a fetch at depth > 0 has called Harvester.Visit and that call
\* has passed the depth gate and fetched the page
C6_Witness ==
  /\ DepthLimit > 0
  /\ \E f \in Frames :
       f.via = "harvester" /\ f.pdepth > 0 /\ f.passed = 3 /\ f.pageIO

\* C7 as stated: a fetch started through Request.Visit on a Request of depth
\* d runs at depth d + 1 and is rejected with depth-limit-exceeded iff
\* DepthLimit # 0 and d + 1 >= DepthLimit.
C7_Original ==
  \A t \in Threads :
    Returned(t) /\ Ret(t).via = "request" =>
      /\ Ret(t).depth = Ret(t).pdepth + 1
      /\ Ret(t).err = "ErrDepthLimitExceeded"
           <=> (DepthLimit # 0 /\ Ret(t).pdepth + 1 >= DepthLimit)

\* C7 amended: a fetch started through Request.Visit on a Request of depth d
\* runs at depth d + 1 and is rejected with depth-limit-exceeded iff it passes
\* the robots check and the visited/allow/deny check, which run before the
\* depth gate, and DepthLimit # 0 and d + 1 >= DepthLimit.
C7_RequestVisitRunsOneDeeper ==
  \A t \in Threads :
    Returned(t) /\ Ret(t).via = "request" =>
      /\ Ret(t).depth = Ret(t).pdepth + 1
      /\ Ret(t).err = "ErrDepthLimitExceeded"
           <=> (/\ Ret(t).passed >= 2
                /\ DepthLimit # 0
                /\ Ret(t).pdepth + 1 >= DepthLimit)

C7_Witness ==
  /\ Returned(1)
  /\ Ret(1).via = "request"
  /\ Ret(1).pdepth = 1
  /\ Ret(1).depth = 2
  /\ Ret(1).err = "ErrDepthLimitExceeded"

\* C8: once a Visit of u has succeeded, a later Visit of u by the same caller
\* returns the already-visited error without a page request when AllowRevisit
\* is false, and issues the page request again, and succeeds when the HTTP
\* calls do, when AllowRevisit is true.
C8_RevisitFollowsAllowRevisit ==
  UserReturned(1) /\ Ret(1).seen =>
    IF AllowRevisit
    THEN /\ Ret(1).pageIO
         /\ Ret(1).net = "up" => Ret(1).err = "nil"
    ELSE /\ Ret(1).err = "ErrVisitedURL"
         /\ ~Ret(1).pageIO

C8_Witness ==
  /\ UserReturned(1)
  /\ Ret(1).seen
  /\ ~AllowRevisit
  /\ Ret(1).err = "ErrVisitedURL"
  /\ pageReqs[Ret(1).url] = 1

\* the robots.txt of the host of u disallows the path of u
RobotsDisallows(u) ==
  \E d \in RobotsTxt[Host(u)] : IsPrefixOf(d, Path(u))

\* C9: when robots are not ignored and the rule set of the host disallows the
\* path, Visit returns the robots-disallowed error and does not fetch the
\* page; when the rule set allows the path the robots check passes, and a
\* call that also passes the other gates fetches the page and returns nil
\* when the HTTP call and the reading of the body succeed.
C9_RobotsGate ==
  \A t \in Threads :
    VisitReturned(t) /\ ~ignoreRobots /\ Ret(t).robot.ok =>
      IF RobotsDisallows(Ret(t).url)
      THEN Ret(t).err = "ErrRobotsDisallowed" /\ ~Ret(t).pageIO
      ELSE /\ Ret(t).passed >= 1
           /\ Ret(t).passed = 3 => Ret(t).pageIO
           /\ Ret(t).passed = 3 /\ Ret(t).net \notin {"down", "badbody"}
                => Ret(t).err = "nil"

C9_Witness ==
  /\ UserReturned(1)
  /\ ~ignoreRobots
  /\ Ret(1).robotsIO
  /\ RobotsDisallows(Ret(1).url)
  /\ Ret(1).err = "ErrRobotsDisallowed"

\* C10 as stated: for every host at most one robots.txt request is issued
\* across any sequence of Visit calls.
C10_Original ==
  \A h \in Hosts : robotsReqs[h] <= 1

\* C10 amended: for every host at most one robots.txt fetch succeeds across
\* any sequence of Visit calls, and once the rule set of a host is cached no
\* further robots.txt request is issued for that host.
C10_OneRuleSetPerHost ==
  [][\A h \in Hosts :
       /\ robotsOK'[h] <= 1
       /\ robotsMap[h].ok => robotsReqs'[h] = robotsReqs[h]]_vars

\* a second Visit on a host has passed the robots check from the cache
C10_Witness ==
  /\ UserReturned(1)
  /\ topCalls >= 2
  /\ ~ignoreRobots
  /\ Ret(1).passed >= 1
  /\ ~Ret(1).robotsIO
  /\ robotsReqs[Host(Ret(1).url)] = 1

\* C11: when the Harvester ignores robots, no robots.txt request is ever
\* issued, the robots cache stays empty, and no call of fetch ends with the
\* robots-disallowed error.
C11_IgnoreRobotsNoIO ==
  ignoreRobots =>
    /\ \A h \in Hosts : robotsReqs[h] = 0 /\ robotsMap[h] = NoEntry
    /\ \A f \in Frames : ~f.robotsIO /\ f.err # "ErrRobotsDisallowed"
    /\ \A t \in Threads :
         Returned(t) => ~Ret(t).robotsIO /\ Ret(t).err # "ErrRobotsDisallowed"

\* a page that robots.txt disallows has been fetched
C11_Witness ==
  /\ ignoreRobots
  /\ UserReturned(1)
  /\ RobotsDisallows(Ret(1).url)
  /\ Ret(1).pageIO
  /\ Ret(1).err = "nil"

\* the entries of a log that are calls of request middlewares, of response
\* middlewares, of element callbacks
IsReq(x) == x.ev = "req"
IsRes(x) == x.ev = "res"
IsEl(x) == x.ev = "el"
\* the positions in a log of the entries of kind ev
Where(log, ev) == {k \in 1..Len(log) : log[k].ev = ev}
\* the calls of fetch that have returned
Rets == {Ret(t) : t \in {x \in Threads : Returned(x)}}

\* C12: within one fetch, every response middleware that reads Response.Body
\* to the end reads the whole body, and the document that is parsed after the
\* response middlewares is the whole body.
C12_BodyReadTwice ==
  \A r \in Rets : r.err = "nil" =>
    /\ \A k \in Where(r.log, "res") :
         responseMiddlewares[r.log[k].i] = "readAll" => r.log[k].data = r.b
    /\ r.doc = r.b

\* the User-Agent header after the request middlewares of registry reg, each
\* of which sets it
LastSet(reg) ==
  IF reg = <<>> THEN NoHeader
  ELSE IF reg[Len(reg)] = "setA" THEN "A" ELSE "B"

\* C13: in every fetch that passes the gates every registered request
\* middleware is called exactly once, in registration order, before the HTTP
\* call; the header the request goes out with, and the header the response
\* middlewares see through Response.Request, is the one the middleware
\* registered last has set.
C13_RequestHooksInOrder ==
  \A r \in Rets : r.passed = 3 =>
    LET calls == SelectSeq(r.log, IsReq) IN
      /\ Len(calls) = Len(requestMiddlewares)
      /\ \A k \in 1..Len(calls) : calls[k].i = k
      /\ \A k \in Where(r.log, "req"), d \in Where(r.log, "do") : k < d
      /\ Cardinality(Where(r.log, "do")) = 1
      /\ r.sent = LastSet(requestMiddlewares)
      /\ \A k \in Where(r.log, "res") : r.log[k].hdr = LastSet(requestMiddlewares)

C13_Witness ==
  /\ Returned(1)
  /\ requestMiddlewares = <<"setA", "setB">>
  /\ responseMiddlewares = <<"status">>
  /\ Ret(1).sent = "B"
  /\ Where(Ret(1).log, "res") # {}

\* C14: in every fetch whose HTTP call succeeds and whose body is buffered
\* every registered response middleware is called exactly once, in
\* registration order, and all of them have returned before the first element
\* callback is called.
C14_ResponseHooksInOrder ==
  \A r \in Rets : r.err = "nil" =>
    LET calls == SelectSeq(r.log, IsRes) IN
      /\ Len(calls) = Len(responseMiddlewares)
      /\ \A k \in 1..Len(calls) : calls[k].i = k
      /\ \A k \in Where(r.log, "res"), e \in Where(r.log, "el") : k < e
      /\ \A k \in Where(r.log, "res"), d \in Where(r.log, "do") : d < k

C14_Witness ==
  /\ Returned(1)
  /\ Len(responseMiddlewares) = 2
  /\ Len(SelectSeq(Ret(1).log, IsRes)) = 2
  /\ Where(Ret(1).log, "el") # {}

\* C15: for every registered element middleware, in registration order, the
\* callback is called exactly once for each element of the parsed document
\* that matches the selector, in document order, with the Request of the
\* current fetch.
C15_ElementHooksPerMatch ==
  \A r \in Rets : r.err = "nil" =>
    LET calls == SelectSeq(r.log, IsEl) IN
      /\ \A k \in 1..Len(htmlMiddlewares), e \in 1..Len(r.doc) :
           r.doc[e] = htmlMiddlewares[k] =>
             Cardinality({x \in 1..Len(calls) : calls[x].i = k /\ calls[x].e = e}) = 1
      /\ \A x \in 1..Len(calls) :
           /\ calls[x].i \in 1..Len(htmlMiddlewares)
           /\ calls[x].e \in 1..Len(r.doc)
           /\ r.doc[calls[x].e] = htmlMiddlewares[calls[x].i]
           /\ calls[x].data = <<r.doc[calls[x].e]>>
           /\ calls[x].hdr = r.sent
      /\ \A x, y \in 1..Len(calls) :
           x < y => \/ calls[x].i < calls[y].i
                    \/ calls[x].i = calls[y].i /\ calls[x].e < calls[y].e

\* two selectors, one of them matching two elements of the page
C15_Witness ==
  /\ Returned(1)
  /\ htmlMiddlewares = <<"a", "p">>
  /\ Ret(1).doc = <<"a", "p", "a">>
  /\ Len(SelectSeq(Ret(1).log, IsEl)) = 3

\* C16: when the context is canceled while the HTTP call for the page is in
\* flight (and the transport does not fail by itself), fetch returns the
\* error that wraps context.Canceled, no response middleware and no element
\* callback is called for that fetch, and the fetch does not mark the URL
\* visited.
C16_CancelInFlight ==
  /\ \A f \in Frames : f.aborted /\ f.pc # "inflight" /\ net # "down" =>
       /\ f.pc = "ret"
       /\ f.err = "ErrCanceled"
       /\ ~f.marked
       /\ Where(f.log, "res") = {} /\ Where(f.log, "el") = {}
  /\ \A r \in Rets : r.aborted /\ r.net # "down" =>
       /\ r.err = "ErrCanceled"
       /\ ~r.marked
       /\ Where(r.log, "res") = {} /\ Where(r.log, "el") = {}

C16_Witness ==
  /\ UserReturned(1)
  /\ Ret(1).aborted
  /\ Ret(1).err = "ErrCanceled"
  /\ responseMiddlewares # <<>>
  /\ htmlMiddlewares # <<>>
  /\ store = {}

\* C17: once the context is canceled no HTTP call of the Harvester completes
\* successfully, neither the call for a page nor the call for robots.txt.
C17_ContextScopesEveryCall ==
  [][Context = "canceled" =>
       /\ \A h \in Hosts : robotsOK'[h] = robotsOK[h]
       /\ \A t \in Threads :
            At(t, "inflight") /\ Len(stack'[t]) = Len(stack[t]) =>
              stack'[t][Len(stack[t])].pc # "mark"]_vars

\* C18 as stated: two rejections of the same kind return the same error
\* value, so that the kind can be told by comparing the error with one
\* exported value.
C18_Original ==
  \A x, y \in 1..Len(kept) :
    kept[x].kind = kept[y].kind => kept[x].addr = kept[y].addr

\* C18 amended: every rejection Visit returns is a new error value, so two
\* rejections are never the same value; the kinds are told apart by the
\* message, which is the format of the kind filled with the rejected URL:
\* rejections of one kind of one URL have equal messages, rejections of
\* different kinds have different ones.
C18_ErrorsByMessage ==
  \A x, y \in 1..Len(kept) :
    /\ x # y => kept[x].addr # kept[y].addr
    /\ kept[x].msg[2] = kept[x].url
    /\ kept[x].kind = kept[y].kind <=> kept[x].msg[3] = kept[y].msg[3]
    /\ (kept[x].kind = kept[y].kind /\ kept[x].url = kept[y].url)
         <=> kept[x].msg = kept[y].msg

\* two rejections of one kind of the same URL
C18_Witness ==
  \E x, y \in 1..Len(kept) :
    /\ x # y
    /\ kept[x].kind = kept[y].kind
    /\ kept[x].url = kept[y].url
    /\ kept[x].msg = kept[y].msg
    /\ kept[x].addr # kept[y].addr

\* C19: Clone returns a Harvester with the configuration of the original
\* (allow list, deny list, depth limit, allow-revisit flag, context,
\* ignore-robots flag) and with registries of its own: they hold only what
\* was registered on the clone, a Visit on the clone runs no middleware
\* registered on the original, before or after the Clone call, and a Visit
\* on the original runs none registered on the clone
AllOf(hooks) == hooks.req \cup hooks.res \cup hooks.html
Elems(seq) == {seq[k] : k \in 1..Len(seq)}

RanOwn(f) ==
  /\ f.recv = "clone" => f.ran \subseteq AllOf(HooksOfClone)
  /\ f.recv = "h" => f.ran \subseteq AllOf(HooksOfH)

C19_CloneSharesConfigNotHooks ==
  /\ clone # <<>> =>
       /\ clone[1].AllowedURLs = AllowedURLs
       /\ clone[1].DisallowedURLs = DisallowedURLs
       /\ clone[1].DepthLimit = DepthLimit
       /\ clone[1].AllowRevisit = AllowRevisit
       /\ clone[1].Context = Context
       /\ clone[1].ignoreRobots = ignoreRobots
       /\ Elems(clone[1].requestMiddlewares) \subseteq HooksOfClone.req
       /\ Elems(clone[1].responseMiddlewares) \subseteq HooksOfClone.res
       /\ Elems(clone[1].htmlMiddlewares) \subseteq HooksOfClone.html
  /\ \A f \in Frames : RanOwn(f)
  /\ \A r \in Rets : RanOwn(r)

\* a Visit on the clone of a Harvester with an allow list has run the
\* request middleware of the clone and returned nil, while the original
\* has a request middleware of its own
C19_Witness ==
  /\ Returned(1)
  /\ Ret(1).recv = "clone"
  /\ Ret(1).err = "nil"
  /\ AllowedURLs # <<>>
  /\ "setB" \in Ret(1).ran
  /\ requestMiddlewares # <<>>

\* C20: a transport error of the page's HTTP call ends the Visit call: the
\* call has made exactly one HTTP attempt for the page, it returns the
\* transport error to its caller, it has run no response middleware and no
\* element callback, and it has not marked the URL
TransportFailed(r) ==
  /\ r.err = "ErrTransport"
  /\ Cardinality(Where(r.log, "do")) = 1
  /\ pageReqs[r.url] = 1
  /\ Where(r.log, "res") = {}
  /\ Where(r.log, "el") = {}
  /\ ~r.marked

C20_TransportErrorIsTerminal ==
  /\ \A r \in Rets : r.net = "down" /\ r.pageIO => TransportFailed(r)
  /\ \A f \in Frames :
       net = "down" /\ f.pageIO /\ f.pc # "inflight" =>
         f.pc = "ret" /\ TransportFailed(f)

\* the HTTP call of a Visit on a Harvester with a middleware in each
\* registry has failed, after the request middleware has run
C20_Witness ==
  /\ Returned(1)
  /\ Ret(1).net = "down"
  /\ Ret(1).pageIO
  /\ Ret(1).err = "ErrTransport"
  /\ Where(Ret(1).log, "req") # {}
  /\ responseMiddlewares # <<>>
  /\ htmlMiddlewares # <<>>

\* C21: when the fetch of robots.txt for a host without a cache entry
\* fails (the network is down, or robots.txt does not parse), Visit returns
\* that error: the page is not fetched, no gate after the robots check is
\* reached, and the error is not the robots-disallowed one
RobotsFetchFailed(r, n) ==
  /\ r.err = (IF n = "down" THEN "ErrTransport" ELSE "ErrRobotsParse")
  /\ ~r.pageIO
  /\ r.passed = 0
  /\ ~r.marked
  /\ r.log = <<>>

C21_RobotsFetchFailureIsReturned ==
  /\ \A r \in Rets :
       r.robotsIO /\ r.net \in {"down", "badrobots"} =>
         RobotsFetchFailed(r, r.net) /\ r.page = 0
  /\ \A f \in Frames :
       f.robotsIO /\ net \in {"down", "badrobots"} =>
         f.pc = "ret" /\ RobotsFetchFailed(f, net)

\* a Visit of a page robots.txt does not disallow has returned the error of
\* the robots.txt fetch, with a robots.txt that does not parse
C21_Witness ==
  /\ Returned(1)
  /\ Ret(1).robotsIO
  /\ Ret(1).net = "badrobots"
  /\ Ret(1).err = "ErrRobotsParse"
  /\ Ret(1).url = <<"h1", "a">>
  /\ robotsReqs["h1"] > 0

\* C22: what a Visit call returns depends on its own steps only: a call
\* that has passed its gates returns the error of its own HTTP call or of
\* its own body read, and nil otherwise, whatever the calls of Visit and
\* Request.Visit made by its middlewares have returned
OwnResult(r) ==
  IF r.net = "down" THEN "ErrTransport"
  ELSE IF r.net = "badbody" THEN "ErrReadBody"
  ELSE "nil"

C22_NestedErrorsStayInside ==
  \A r \in Rets : r.passed = 3 => r.err = OwnResult(r)

\* the Visit of the user has returned nil although a call made by one of
\* its middlewares had returned an error
C22_Witness ==
  /\ UserReturned(1)
  /\ Ret(1).err = "nil"
  /\ Ret(1).inner \cap Rejections # {}

\* C23: InMemoryStore.Visit is an idempotent insert and the store only
\* grows: after Visit(u), Visited(u) is true for good; Visit(u) on a store
\* that holds u leaves it as it is; Visited(v) is false as long as v has not
\* been passed to Visit; Visited leaves the store as it is
StoreAfter(k) == IF k < Len(storeCalls) THEN storeCalls[k + 1].before ELSE store

VisitedBefore(k, u) ==
  \E j \in 1..(k - 1) : storeCalls[j].op = "Visit" /\ storeCalls[j].url = u

C23_StoreIsGrowingSet ==
  \A k \in 1..Len(storeCalls) :
    LET c == storeCalls[k] IN
      /\ c.before \subseteq StoreAfter(k)
      /\ c.op = "Visit" =>
           /\ \A j \in k..Len(storeCalls) : c.url \in StoreAfter(j)
           /\ VisitedBefore(k, c.url) => StoreAfter(k) = c.before
           /\ StoreAfter(k) = c.before \cup {c.url}
      /\ c.op = "Visited" =>
           /\ c.ret = VisitedBefore(k, c.url)
           /\ StoreAfter(k) = c.before

\* Visit(u) has been called twice, with a Visit of another URL between the
\* two
C23_Witness ==
  /\ Len(storeCalls) = 3
  /\ storeCalls[1].op = "Visit"
  /\ storeCalls[2].op = "Visit"
  /\ storeCalls[3].op = "Visit"
  /\ storeCalls[1].url = storeCalls[3].url
  /\ storeCalls[1].url # storeCalls[2].url

\* C24: in every fetch the gates run in the order robots check, visited /
\* allow / deny check, depth check, and all three have passed before the
\* Request is built, a request middleware runs or the HTTP request for the
\* page goes out; the first gate that fails gives the error that is returned
Forbidden(u) ==
  \/ MatchesSome(DisallowedURLs, u)
  \/ AllowedURLs # <<>> /\ ~MatchesSome(AllowedURLs, u)

TooDeep(depth) == DepthLimit # 0 /\ depth >= DepthLimit

GatesInOrder(r) ==
  /\ r.err = "ErrRobotsDisallowed" => r.passed = 0
  /\ r.err \in {"ErrVisitedURL", "ErrForbiddenURL"} => r.passed = 1
  /\ r.err = "ErrDepthLimitExceeded" => r.passed = 2
  /\ r.log # <<>> \/ r.pageIO => r.passed = 3

FirstFailingGate(r) ==
  IF ~ignoreRobots /\ r.robot.ok /\ RobotsDisallows(r.url)
  THEN r.err = "ErrRobotsDisallowed"
  ELSE IF r.passed >= 1 /\ Forbidden(r.url)
  THEN r.err \in {"ErrVisitedURL", "ErrForbiddenURL"}
  ELSE IF r.passed >= 2 /\ TooDeep(r.depth)
  THEN r.err = "ErrDepthLimitExceeded"
  ELSE r.err \notin Rejections \/ r.err = "ErrVisitedURL"

C24_GatesInOrderBeforeRequest ==
  /\ \A r \in Rets : GatesInOrder(r) /\ FirstFailingGate(r)
  /\ \A f \in Frames :
       /\ GatesInOrder(f)
       /\ f.pc = "ret" => FirstFailingGate(f)
       /\ f.pc \in {"request", "reqhooks", "do", "inflight"} => f.passed = 3

\* a Visit of a URL that robots.txt disallows and that is outside the allow
\* list has returned the robots-disallowed error
C24_Witness ==
  /\ UserReturned(1)
  /\ ~ignoreRobots
  /\ RobotsDisallows(Ret(1).url)
  /\ Forbidden(Ret(1).url)
  /\ Ret(1).err = "ErrRobotsDisallowed"
  /\ Ret(1).passed = 0

\* C25: a URL is marked visited only after its page HTTP call has returned
\* a response: while the request middlewares run and while the HTTP call is
\* in flight the call has not put the URL into the store, a fetch whose HTTP
\* call fails leaves the store as it was, and the mark is there before the
\* first response middleware runs
MarkedAfterResponse(r) ==
  /\ store = (IF r.marked THEN {urlString(r.url)} ELSE {})
  /\ r.marked => r.pageIO /\ r.err # "ErrTransport"
  /\ Where(r.log, "res") # {} \/ Where(r.log, "el") # {} => r.marked

C25_MarkedOnlyAfterResponse ==
  /\ \A r \in Rets : stack[1] = <<>> => MarkedAfterResponse(r)
  /\ \A f \in Frames :
       /\ MarkedAfterResponse(f)
       /\ f.pc \in {"request", "reqhooks", "do", "inflight"} => ~f.marked
       /\ f.pc \in {"readbody", "reshooks", "html"} => f.marked

\* a response middleware has run in a Visit that has marked its URL, after
\* a request middleware had run
C25_Witness ==
  /\ Returned(1)
  /\ Ret(1).err = "nil"
  /\ Ret(1).marked
  /\ Where(Ret(1).log, "req") # {}
  /\ Where(Ret(1).log, "res") # {}
  /\ store = {urlString(Ret(1).url)}

\* the call thread t is making or has made: its running fetch, or else what
\* its fetch has returned
Called(t) == stack[t] # <<>> \/ Returned(t)
Call(t) == IF stack[t] # <<>> THEN Top(t) ELSE Ret(t)

\* C26: with AllowRevisit false, the visited check and the mark are two
\* store operations of their own: a call that has passed the check has put
\* nothing into the store until its HTTP call has returned, so the store
\* holds the URLs of the calls that have got their response and no others,
\* and every call that has passed its gates sends its own request for the
\* page, also when another call is between the check and the mark for the
\* same URL
C26_CheckAndMarkAreSeparate ==
  /\ store = {urlString(Call(t).url) : t \in {x \in Racers : Called(x) /\ Call(x).marked}}
  /\ \A t \in Racers : Called(t) /\ Call(t).marked => Call(t).pageIO
  /\ \A u \in PageURLs :
       pageReqs[u] = Cardinality({t \in Racers : /\ Called(t)
                                                /\ Call(t).url = u
                                                /\ Call(t).pageIO})

\* two calls for the same URL are both past the visited check and have both
\* sent the request for the page, and neither has marked the URL
C26_Witness ==
  /\ ~AllowRevisit
  /\ At(1, "inflight")
  /\ At(2, "inflight")
  /\ Top(1).url = Top(2).url
  /\ pageReqs[Top(1).url] = 2
  /\ urlString(Top(1).url) \notin store

\* C27: two concurrent calls for URLs of one host that has no cache entry
\* may both fetch robots.txt; the writes into robotsMap are made one at a
\* time, by the call that holds the mutex, each write puts the rule set of
\* its call into the entry of the host, so the entry is the rule set of the
\* call that wrote last, and every rule set in the map was made from a
\* response of its host
Writers == {t \in Racers : At(t, "robotsWrite")}

C27_RobotsWritesSerialized ==
  [][/\ Cardinality(Writers) <= 1
     /\ \A t \in Writers : mu["h"] = t
     /\ \A t \in Writers :
          stack'[t] # stack[t] =>
            robotsMap' = [robotsMap EXCEPT ![Host(Top(t).url)] = Top(t).robot]
     /\ robotsMap' # robotsMap => \E t \in Writers : stack'[t] # stack[t]
     /\ \A h \in Hosts :
          robotsMap'[h].ok => robotsMap'[h].src \in 1..robotsOK'[h]]_vars

\* both calls have fetched robots.txt of the same host and have returned,
\* and the entry of the host is the rule set of the first of the two fetches
C27_Witness ==
  /\ Returned(1)
  /\ Returned(2)
  /\ stack[1] = <<>>
  /\ stack[2] = <<>>
  /\ Ret(1).robotsIO
  /\ Ret(2).robotsIO
  /\ Host(Ret(1).url) = Host(Ret(2).url)
  /\ robotsOK[Host(Ret(1).url)] = 2
  /\ robotsMap[Host(Ret(1).url)].src = 1

\* C28: the mutex of a Harvester is held only around the lookup in the
\* robots map, the insert into it and the append to a registry: whoever
\* holds it is at one of these three steps, so no middleware runs and no
\* robots.txt request is in flight under the mutex, and a goroutine that is
\* about to lock the mutex never holds it already
Holds(t, r) == mu[r] = t

LockedSteps == {"robotsRead", "robotsWrite", "regAppend"}

LockingSteps == {"robotsLookup", "robotsStore", "regLock"}

MutexScope(t) ==
  \A r \in DOMAIN mu :
    /\ Holds(t, r) =>
         /\ stack[t] # <<>>
         /\ Top(t).pc \in LockedSteps
         /\ Top(t).recv = r
    /\ stack[t] # <<>> /\ Top(t).recv = r =>
         /\ Top(t).pc \in LockingSteps => ~Holds(t, r)
         /\ Top(t).pc \in LockedSteps => Holds(t, r)

C28_MutexOnlyAroundMapAndRegistry ==
  /\ \A r \in DOMAIN mu : mu[r] \in {0} \cup Threads
  /\ \A t \in Threads : MutexScope(t)

\* a middleware of the Visit of one goroutine is appending to a registry,
\* under the mutex, and the other goroutine waits for the mutex
C28_Witness ==
  /\ Len(stack[1]) = 2
  /\ stack[1][1].pc \in {"reqhooks", "reshooks"}
  /\ At(1, "regAppend")
  /\ Holds(1, "h")
  /\ At(2, "regLock")

\* C29: no read of a hook registry by a running Visit overlaps a write to
\* that registry by a registration: no fetch has read a registry while
\* another goroutine was between the Lock and the Unlock of an append to it
C29_RegistryReadsNeverOverlapWrites ==
  /\ \A f \in Frames : ~f.raced
  /\ \A r \in Rets : ~r.raced

\* C30: the robots.txt fetch is not subject to the URL policy, the robots
\* check or the rest of the pipeline. Whatever the allow and deny lists say
\* about the robots.txt URL, a Visit of a URL that parses, on a Harvester
\* that does not ignore robots, gets past the robots check only with a
\* robots.txt request for the host issued; and the step that issues the
\* request is one request for one host: it runs no middleware, marks nothing
\* visited, requests no page and starts no nested fetch
PastRobotsFetch(r) ==
  /\ parseOK(r.url)
  /\ r.pc \notin {"parse", "robotsLookup", "robotsRead", "robotsFetch"}

RobotsFetchIssued ==
  ~ignoreRobots =>
    /\ \A r \in Rets : parseOK(r.url) => robotsReqs[Host(r.url)] >= 1
    /\ \A f \in Frames : PastRobotsFetch(f) => robotsReqs[Host(f.url)] >= 1
    /\ \A h \in Hosts : urlString(robotURL(<<h>>)) \notin store

RobotsFetchStep ==
  robotsReqs' # robotsReqs =>
    /\ \E h \in Hosts : robotsReqs' = [robotsReqs EXCEPT ![h] = @ + 1]
    /\ store' = store
    /\ pageReqs' = pageReqs
    /\ tree' = tree
    /\ \A t \in Threads :
         /\ Len(stack'[t]) = Len(stack[t])
         /\ stack[t] # <<>> =>
              /\ Top(t)'.log = Top(t).log
              /\ Top(t)'.ran = Top(t).ran
              /\ Top(t)'.marked = Top(t).marked

C30_RobotsFetchBypassesPolicy ==
  []RobotsFetchIssued /\ [][RobotsFetchStep]_vars

\* with middlewares registered, a Visit of a page of a host whose robots.txt
\* URL has a deny prefix and is outside the allow list has fetched
\* robots.txt, and was then turned down by the URL policy
C30_Witness ==
  /\ UserReturned(1)
  /\ ~ignoreRobots
  /\ Registered > 0
  /\ Ret(1).robotsIO
  /\ anyHasPrefix(urlString(robotURL(Ret(1).url)), DisallowedURLs)
  /\ Len(AllowedURLs) # 0
  /\ ~anyHasPrefix(urlString(robotURL(Ret(1).url)), AllowedURLs)
  /\ robotsReqs[Host(Ret(1).url)] = 1
  /\ Ret(1).err = "ErrForbiddenURL"
  /\ store = {}

\* C31: a failure to parse the buffered body as HTML is surfaced by the
\* Visit call: a fetch whose HTML parse has failed does not return nil
C31_HtmlParseFailureIsSurfaced ==
  /\ \A r \in Rets : r.htmlErr => r.err # "nil"
  /\ \A f \in Frames : f.htmlErr /\ f.pc = "ret" => f.err # "nil"

\* C32: with DepthLimit = N > 0, every fetch that has built its Request,
\* the one its request and response middlewares and its element callbacks
\* are handed, or has issued its page request, runs at a depth d with
\* 0 <= d < N, whatever mix of Harvester.Visit and Request.Visit the
\* middlewares use
HasRequest(r) == r.passed = 3 \/ r.log # <<>> \/ r.pageIO

BelowLimit(r) == HasRequest(r) => 0 <= r.depth /\ r.depth < DepthLimit

C32_RequestsBelowDepthLimit ==
  DepthLimit > 0 =>
    /\ \A f \in Frames : BelowLimit(f)
    /\ \A r \in Rets : BelowLimit(r)

\* a fetch entered through Request.Visit runs its response middlewares at
\* depth N - 1, and the Request.Visit one of them made was turned down by
\* the depth gate
C32_Witness ==
  /\ DepthLimit >= 2
  /\ \E f \in Frames :
       /\ f.via = "request"
       /\ f.depth = DepthLimit - 1
       /\ f.pageIO
       /\ Where(f.log, "res") # {}
       /\ "ErrDepthLimitExceeded" \in f.inner

\* C33 as stated: with DepthLimit = N > 0 and middlewares that re-enter only
\* through Request.Visit, every chain of nested fetches has length at most
\* N, and the Visit of the user returns
TopReturned(t) == stack[t] = <<>> /\ Returned(t) /\ Ret(t).via = "top"

VisitReturns == \A t \in Threads : stack[t] # <<>> ~> TopReturned(t)

C33_Original ==
  /\ [](\A t \in Threads : Len(stack[t]) <= DepthLimit)
  /\ VisitReturns

\* C33 amended: the chain of nested calls of fetch has length at most N + 1:
\* the call at position k runs at depth k - 1, at most N of them get past
\* the depth gate, and the call at depth N is turned down by a gate and
\* calls no middleware; the Visit of the user returns, also with
\* AllowRevisit = true
ChainBounded(t) ==
  /\ Len(stack[t]) <= DepthLimit + 1
  /\ \A k \in 1..Len(stack[t]) :
       /\ stack[t][k].depth = k - 1
       /\ HasRequest(stack[t][k]) => k <= DepthLimit

C33_NestedFetchesEnd ==
  /\ [](\A t \in Threads : ChainBounded(t))
  /\ VisitReturns

\* with AllowRevisit = true and two response middlewares that call
\* Request.Visit on the URL of their response, the Visit of the user has
\* returned nil after three page requests under DepthLimit = 2
C33_Witness ==
  /\ UserReturned(1)
  /\ AllowRevisit
  /\ DepthLimit = 2
  /\ responseMiddlewares = <<"rvisit", "rvisit">>
  /\ Ret(1).err = "nil"
  /\ Ret(1).page = 3
  /\ Ret(1).inner = {"nil"}

\* C34: with AllowRevisit = false, no request middleware and response
\* middlewares that all re-visit the URL of their response, through
\* Harvester.Visit or Request.Visit, every nested call returns the
\* already-visited error, and a Visit of the user whose response middlewares
\* have run has issued exactly one page request, for every DepthLimit
ResponseHooksRevisit ==
  /\ ~AllowRevisit
  /\ requestMiddlewares = <<>>
  /\ responseMiddlewares # <<>>

C34_RevisitingResponseHookFetchesOnce ==
  ResponseHooksRevisit =>
    /\ \A r \in Rets : r.via # "top" => r.err = "ErrVisitedURL" /\ ~r.pageIO
    /\ \A f \in Frames : f.inner \subseteq {"ErrVisitedURL"}
    /\ UserReturned(1) /\ Ret(1).resp > 0 =>
         /\ Ret(1).page = 1
         /\ Ret(1).resp = Len(responseMiddlewares)
         /\ Ret(1).inner = {"ErrVisitedURL"}
         /\ Ret(1).err = "nil"

\* under DepthLimit = 2, a Visit whose response was handed to a middleware
\* calling Request.Visit and to one calling Harvester.Visit has returned nil
\* after one page request
C34_Witness ==
  /\ UserReturned(1)
  /\ ~AllowRevisit
  /\ DepthLimit = 2
  /\ requestMiddlewares = <<>>
  /\ responseMiddlewares = <<"rvisit", "hvisit">>
  /\ Ret(1).resp = 2
  /\ Ret(1).page = 1
  /\ Ret(1).inner = {"ErrVisitedURL"}
  /\ pageReqs[Ret(1).url] = 1

\* C35: in a single call chain with AllowRevisit = false no URL is fetched
\* more than once, also when middlewares re-enter Visit: the page of no URL
\* is requested twice while every HTTP call succeeds
C35_NoPageFetchedTwice ==
  ~AllowRevisit /\ net = "up" => \A u \in PageURLs : pageReqs[u] <= 1

\* C36: a call that ends in a rejection (unparsable URL, robots-disallowed,
\* forbidden, already-visited, depth-exceeded) has run no request, response
\* or element middleware, has issued no page request and has not called
\* store.Visit; and no step a fetch takes before it has passed its gates
\* changes the visited store, a registry or the page requests
IsRejection(e) == e \in Rejections \cup {"ErrParse"}

RejectedClean(r) ==
  IsRejection(r.err) =>
    /\ r.log = <<>>
    /\ r.ran = {}
    /\ r.inner = {}
    /\ ~r.pageIO
    /\ ~r.marked
    /\ r.passed < 3

GateStep ==
  \A t \in Threads :
    stack[t] # <<>> /\ Top(t).passed < 3 =>
      /\ store' = store
      /\ requestMiddlewares' = requestMiddlewares
      /\ responseMiddlewares' = responseMiddlewares
      /\ htmlMiddlewares' = htmlMiddlewares
      /\ pageReqs' = pageReqs
      /\ tree' = tree

C36_RejectionHasNoEffect ==
  /\ [](\A r \in Rets \cup Frames : RejectedClean(r))
  /\ [][GateStep]_vars

\* on a Harvester with middlewares and a URL in its store, the Request.Visit
\* of a response middleware has been turned down by the depth gate
C36_Witness ==
  /\ Returned(1)
  /\ stack[1] # <<>>
  /\ Ret(1).via = "request"
  /\ Ret(1).err = "ErrDepthLimitExceeded"
  /\ Ret(1).log = <<>>
  /\ responseMiddlewares # <<>>
  /\ store = {urlString(Ret(1).url)}
  /\ pageReqs[Ret(1).url] = DepthLimit

\* C37: when the HTTP call of the page succeeds and reading the body fails,
\* Visit returns the read error and has run no response or element
\* middleware, but the URL is marked visited; so with AllowRevisit = false
\* the Visit of the same URL that follows returns the already-visited error
ReadFailed(r) == r.err = "ErrReadBody"

MarkedUnseen(r) ==
  ReadFailed(r) =>
    /\ r.pageIO
    /\ r.marked
    /\ urlString(r.url) \in store
    /\ Where(r.log, "res") = {}
    /\ Where(r.log, "el") = {}

VisitAfterReadFail(t) ==
  /\ ~AllowRevisit
  /\ Returned(t)
  /\ ReadFailed(Ret(t))
  /\ lastRet'[t] # lastRet[t]
  => /\ Ret(t)'.url = Ret(t).url
     /\ Ret(t)'.err = "ErrVisitedURL"
     /\ ~Ret(t)'.pageIO

C37_ReadFailureLeavesUrlVisited ==
  /\ [](\A r \in Rets \cup Frames : MarkedUnseen(r))
  /\ [][\A t \in Threads : VisitAfterReadFail(t)]_vars

\* on a Harvester with a response middleware, the second Visit of a URL has
\* returned already-visited after one page request, and no Visit has
\* returned nil
C37_Witness ==
  /\ UserReturned(1)
  /\ ~AllowRevisit
  /\ topCalls = 2
  /\ responseMiddlewares # <<>>
  /\ Ret(1).err = "ErrVisitedURL"
  /\ store = {urlString(Ret(1).url)}
  /\ okTop = {}
  /\ pageReqs[Ret(1).url] = 1

\* C38: a failed robots.txt fetch stores no entry for the host: the step
\* that fails leaves the robots map as it was, the host has no entry when
\* the failing Visit returns, and the Visit of a URL of that host that
\* follows fetches robots.txt itself
RobotsFailed(r) ==
  r.robotsIO /\ r.passed = 0 /\ r.err \in {"ErrTransport", "ErrRobotsParse"}

NoEntryAfterFailure ==
  \A t \in Threads :
    /\ stack[t] # <<>> /\ RobotsFailed(Top(t)) =>
         robotsMap[Host(Top(t).url)] = NoEntry
    /\ stack[t] = <<>> /\ Returned(t) /\ RobotsFailed(Ret(t)) =>
         robotsMap[Host(Ret(t).url)] = NoEntry

FetchedAgain(t) ==
  /\ robotsReqs' # robotsReqs /\ robotsOK' = robotsOK => robotsMap' = robotsMap
  /\ /\ Returned(t)
     /\ RobotsFailed(Ret(t))
     /\ lastRet'[t] # lastRet[t]
     /\ parseOK(Ret(t)'.url)
     /\ Host(Ret(t)'.url) = Host(Ret(t).url)
     => Ret(t)'.robotsIO

C38_FailedRobotsFetchNotCached ==
  /\ []NoEntryAfterFailure
  /\ [][\A t \in Threads : FetchedAgain(t)]_vars

\* the second Visit on a host has fetched robots.txt itself, after the
\* robots.txt fetch of the first one failed, and has returned nil
C38_Witness ==
  /\ UserReturned(1)
  /\ ~ignoreRobots
  /\ topCalls = 2
  /\ Ret(1).robotsIO
  /\ Ret(1).err = "nil"
  /\ robotsReqs[Host(Ret(1).url)] = 2
  /\ robotsOK[Host(Ret(1).url)] = 1

\* C39: every read and write of a robots map is mutually exclusive with
\* every other access to that map, also between a Harvester and its clone:
\* at most one goroutine is between the Lock and the Unlock around its lookup
\* in, or its write into, the map they share, and no call has accessed the
\* map while another one did
MapAccessors ==
  {t \in Threads : At(t, "robotsRead") \/ At(t, "robotsWrite")}

C39_RobotsMapAccessExclusive ==
  /\ Cardinality(MapAccessors) <= 1
  /\ \A r \in Rets \cup Frames : ~r.mapRace

\* C40: a clone shares the visited store and the robots cache of the
\* Harvester it was cloned from. With AllowRevisit = false, the Visit of a
\* URL through one of the two that follows a successful Visit of that URL
\* through the other sends no page request and is rejected as already
\* visited; and the Visit that follows, on the other Harvester, a Visit that
\* has fetched the robots.txt of its host sends no robots.txt request.
\* the call under way on thread t is on the other Harvester than the call
\* that returned before it
OtherThanBefore(t) ==
  /\ Len(stack[t]) = 1
  /\ lastRet[t] # <<>>
  /\ Top(t).recv # Ret(t).recv

SharesStore(t) ==
  /\ OtherThanBefore(t)
  /\ ~AllowRevisit
  /\ Ret(t).err = "nil"
  /\ Top(t).url = Ret(t).url
  => /\ ~Top(t).pageIO
     /\ Top(t).pc = "ret" => Top(t).err = "ErrVisitedURL"

SharesRobotsMap(t) ==
  /\ OtherThanBefore(t)
  /\ Ret(t).robotsIO
  /\ Ret(t).robot.ok
  /\ Host(Top(t).url) = Host(Ret(t).url)
  => ~Top(t).robotsIO

C40_CloneSharesStoreAndRobotsMap ==
  /\ \A t \in Threads : SharesStore(t) /\ SharesRobotsMap(t)
  /\ \A h \in Hosts : robotsOK[h] <= 1
  /\ ~AllowRevisit => \A r \in Rets : r.seen => ~r.pageIO

\* the Visit on the clone is about to return already-visited for the URL the
\* Visit on the original has fetched, after one page request and one
\* robots.txt request in all
C40_Witness ==
  /\ OtherThanBefore(1)
  /\ Top(1).recv = "clone"
  /\ Top(1).pc = "ret"
  /\ Top(1).err = "ErrVisitedURL"
  /\ Ret(1).err = "nil"
  /\ Ret(1).robotsIO
  /\ Top(1).url = Ret(1).url
  /\ pageReqs[Top(1).url] = 1
  /\ robotsReqs[Host(Top(1).url)] = 1

====
